---- MODULE Spec2Model ----
(***************************************************************************)
(* Model of votify's media resolution layer (src/votify/interface).        *)
(*                                                                         *)
(*   Spec        the URL and collection resolver, get_media_by_url, one    *)
(*               step per result the generator yields                      *)
(*   SpecBroker  the DRM key broker, one step per CDM or API call          *)
(*   SpecAudio   audio quality negotiation, one step per ladder iteration  *)
(*   SpecVideo   video profile selection by resolution                     *)
(*   SpecCache   the memoized album/show fetch with its pagination loop    *)
(*   SpecDownload  SpotifyDownloader.download, one step per function it    *)
(*               calls and one for its finally clause                      *)
(*   SpecStage   the stage() methods of the audio and video downloaders,   *)
(*               one step per external tool they run                       *)
(*   SpecPlaylist  update_playlist_file applied again and again to one     *)
(*               playlist file                                             *)
(*   SpecFinal   SpotifyDownloader._final_processing of one staged item    *)
(*   SpecSanitize  sanitize_string of a downloader constructed with a      *)
(*               truncate option                                           *)
(*   SpecDisc    _parse_disc_info of a sibling track list                  *)
(*   SpecCli     the loop of main() over URLs and download items           *)
(*   SpecPaging  the pagination loops of the collection enumerations       *)
(*   SpecSegments  the segment URL list of a video track                   *)
(*   SpecTags    the tag structure written to a staged file                *)
(*   SpecCover   the memo of cover images                                  *)
(*   SpecScratch the scratch namespace of the items of a run               *)
(*                                                                         *)
(* Python semantics that the model keeps:                                  *)
(*   - BaseException.__init__ rejects keyword arguments with TypeError;    *)
(*   - assert statements are executed (the program is not run with -O);    *)
(*   - enumerate() counts from 0; max()/min() return the first extremum.   *)
(***************************************************************************)
EXTENDS Integers, Sequences, FiniteSets, TLC

\* ------------------------------------------------------------------------
\* Bounds of the model
\* ------------------------------------------------------------------------
MaxItems == 3
MaxReleases == 2
MaxCalls == 3
MaxFiles == 2
MaxProfiles == 3
MaxResolutions == 3
MaxTotal == 3
MaxMissing == 1
MaxExit == 2
MaxTrack == 3
MaxName == 3
MaxTruncate == 6
MaxSiblings == 5
MaxTrackNumber == 3
MaxUrls == 2
MaxUrlItems == 2
MaxEndMillis == 2500
MaxSegmentLength == 4
MaxExcluded == 2
MaxCoverCalls == 4
MaxScratchItems == 3

None == "None"

VARIABLES
    \* SpotifyBaseInterface / SpotifyInterface configuration
    no_drm, cdm, disallowed_media_types, artist_media_option,
    \* the URL handed to get_media_by_url and what the API serves for it
    url, server,
    \* position of the get_media_by_url generator
    pc, idx, rel, results, resolved, raised,
    \* use of the key broker by the resolver
    brokerCalls, cdmTouched,
    \* key broker (_get_widevine_decryption_key)
    kb_pc, kb_pssh, cdm_session, kb_exc, kb_call, kb_out,
    sessions, nextSession, opened, closed, used,
    \* audio negotiation (SpotifyAudioInterface.get_stream_info)
    audio_quality, premium_session, file_ids_mp4, skip_pssh,
    aq_pc, aq_cur, aq_tried, aq_file_id, aq_out, aq_api,
    \* video profile selection
    profiles, resolution, video_format, vp_pc, vp_out,
    \* collection cache (get_album_data_cached / get_show_data_cached)
    api_total, lru, cf_pc, cf_key, cf_items, cf_calls, fetched, handed,
    \* SpotifyDownloader.download: configuration, item, files, position
    dl_cfg, dl_item, dl_pc, dl_exc, dl_final, dl_final0, dl_scratch,
    dl_scratch0, dl_effects,
    \* stage(): the call, the binaries found, position, tools run, outcome
    st_call, st_tools, st_pc, st_ran, st_exc,
    \* the playlist file: its directory, whether it exists, its content, its
    \* content before the last update_playlist_file, that call and its outcome
    pl_parent, pl_exists, pl_file, pl_prev, pl_call, pl_exc,
    \* _final_processing: the downloader's flags, the item, position in the
    \* function, outcome, where the media file is, the playlist file
    fp_cfg, fp_item, fp_pc, fp_exc, fp_media, fp_file,
    \* sanitize_string: self.truncate, the arguments, position, the result
    sn_truncate, sn_string, sn_ext, sn_pc, sn_result,
    \* _parse_disc_info: the sibling track numbers, the track's position, result
    di_tracks, di_position, di_pc, di_out,
    \* main(): configuration, URLs, position in the loops, what was reported
    cl_no_drm, cl_urls, cl_url, cl_pos, cl_closed, cl_pc, cl_inflight, cl_downloads, cl_stepped, cl_skips, cl_errors, cl_error_count, cl_got,
    \* pagination loop: enumeration, declared totals, items held, requests made
    pg_kind, pg_totals, pg_lens, pg_requests, pg_empty, pg_pc,
    \* _generate_segment_urls: arguments, loop variable, list built so far
    sg_args, sg_urls, sg_timestamp, sg_pc,
    \* apply_tags: the item's tags, the exclusion list, the file, what is saved
    tg_tags, tg_exclude, tg_ext, tg_cover_bytes, tg_file, tg_pc,
    \* get_cover_bytes: the server's status per URL, the memo, the requests made
    cv_status, cv_cache, cv_requests, cv_calls, cv_last,
    \* scratch namespaces: the class default, the items, the files
    sc_default_uuid, sc_skip_cleanup, sc_items, sc_files, sc_removed, sc_pc

resolverVars == <<no_drm, cdm, disallowed_media_types, artist_media_option,
                  url, server, pc, idx, rel, results, resolved, raised,
                  brokerCalls, cdmTouched>>
brokerVars == <<kb_pc, kb_pssh, cdm_session, kb_exc, kb_call, kb_out,
                sessions, nextSession, opened, closed, used>>
audioVars == <<audio_quality, premium_session, file_ids_mp4, skip_pssh,
               aq_pc, aq_cur, aq_tried, aq_file_id, aq_out, aq_api>>
videoVars == <<profiles, resolution, video_format, vp_pc, vp_out>>
cacheVars == <<api_total, lru, cf_pc, cf_key, cf_items, cf_calls, fetched,
               handed>>
downloadVars == <<dl_cfg, dl_item, dl_pc, dl_exc, dl_final, dl_final0,
                  dl_scratch, dl_scratch0, dl_effects>>
stageVars == <<st_call, st_tools, st_pc, st_ran, st_exc>>
playlistVars == <<pl_parent, pl_exists, pl_file, pl_prev, pl_call, pl_exc>>
finalVars == <<fp_cfg, fp_item, fp_pc, fp_exc, fp_media, fp_file>>
sanitizeVars == <<sn_truncate, sn_string, sn_ext, sn_pc, sn_result>>
discVars == <<di_tracks, di_position, di_pc, di_out>>
cliVars == <<cl_no_drm, cl_urls, cl_url, cl_pos, cl_closed, cl_pc,
    cl_inflight, cl_downloads, cl_stepped, cl_skips, cl_errors,
    cl_error_count, cl_got>>
pagingVars == <<pg_kind, pg_totals, pg_lens, pg_requests, pg_empty, pg_pc>>
segmentVars == <<sg_args, sg_urls, sg_timestamp, sg_pc>>
tagVars == <<tg_tags, tg_exclude, tg_ext, tg_cover_bytes, tg_file, tg_pc>>
coverVars == <<cv_status, cv_cache, cv_requests, cv_calls, cv_last>>
scratchVars == <<sc_default_uuid, sc_skip_cleanup, sc_items, sc_files,
    sc_removed, sc_pc>>
laterVars == <<cacheVars, downloadVars, stageVars, playlistVars, finalVars,
    sanitizeVars, discVars, cliVars, pagingVars, segmentVars, tagVars,
    coverVars, scratchVars>>
vars == <<resolverVars, brokerVars, audioVars, videoVars, laterVars>>

\* the variables of the components an action does not belong to
notResolver == <<brokerVars, audioVars, videoVars, laterVars>>
notBroker == <<resolverVars, audioVars, videoVars, laterVars>>
notAudio == <<resolverVars, brokerVars, videoVars, laterVars>>
notVideo == <<resolverVars, brokerVars, audioVars, laterVars>>
earlierVars == <<resolverVars, brokerVars, audioVars, videoVars>>
notCache == <<earlierVars, downloadVars, stageVars, playlistVars, finalVars,
    sanitizeVars, discVars, cliVars, pagingVars, segmentVars, tagVars,
    coverVars, scratchVars>>
notDownload == <<earlierVars, cacheVars, stageVars, playlistVars, finalVars,
    sanitizeVars, discVars, cliVars, pagingVars, segmentVars, tagVars,
    coverVars, scratchVars>>
notStage == <<earlierVars, cacheVars, downloadVars, playlistVars, finalVars,
    sanitizeVars, discVars, cliVars, pagingVars, segmentVars, tagVars,
    coverVars, scratchVars>>
notPlaylist == <<earlierVars, cacheVars, downloadVars, stageVars, finalVars,
    sanitizeVars, discVars, cliVars, pagingVars, segmentVars, tagVars,
    coverVars, scratchVars>>
notFinal == <<earlierVars, cacheVars, downloadVars, stageVars, playlistVars,
    sanitizeVars, discVars, cliVars, pagingVars, segmentVars, tagVars,
    coverVars, scratchVars>>
notSanitize == <<earlierVars, cacheVars, downloadVars, stageVars,
    playlistVars, finalVars, discVars, cliVars, pagingVars, segmentVars,
    tagVars, coverVars, scratchVars>>
notDisc == <<earlierVars, cacheVars, downloadVars, stageVars, playlistVars,
    finalVars, sanitizeVars, cliVars, pagingVars, segmentVars, tagVars,
    coverVars, scratchVars>>
notCli == <<earlierVars, cacheVars, downloadVars, stageVars, playlistVars,
    finalVars, sanitizeVars, discVars, pagingVars, segmentVars, tagVars,
    coverVars, scratchVars>>
notPaging == <<earlierVars, cacheVars, downloadVars, stageVars, playlistVars,
    finalVars, sanitizeVars, discVars, cliVars, segmentVars, tagVars,
    coverVars, scratchVars>>
notSegments == <<earlierVars, cacheVars, downloadVars, stageVars,
    playlistVars, finalVars, sanitizeVars, discVars, cliVars, pagingVars,
    tagVars, coverVars, scratchVars>>
notTags == <<earlierVars, cacheVars, downloadVars, stageVars, playlistVars,
    finalVars, sanitizeVars, discVars, cliVars, pagingVars, segmentVars,
    coverVars, scratchVars>>
notCover == <<earlierVars, cacheVars, downloadVars, stageVars, playlistVars,
    finalVars, sanitizeVars, discVars, cliVars, pagingVars, segmentVars,
    tagVars, scratchVars>>
notScratch == <<earlierVars, cacheVars, downloadVars, stageVars,
    playlistVars, finalVars, sanitizeVars, discVars, cliVars, pagingVars,
    segmentVars, tagVars, coverVars>>

\* ------------------------------------------------------------------------
\* Exceptions (src/votify/utils.py, src/votify/interface/exceptions.py)
\* ------------------------------------------------------------------------
\* VotiyException adds nothing to Exception: its __init__ is
\* BaseException.__init__, which raises TypeError on keyword arguments.
VotiyException(name, kwargs) ==
    IF kwargs THEN [ok |-> FALSE, exc |-> "TypeError"]
              ELSE [ok |-> TRUE, exc |-> name]

VotifyInterfaceException(name, kwargs) == VotiyException(name, kwargs)

\* super().__init__(f"...{url}"): positional only
VotifyUrlParseException == VotifyInterfaceException("UrlParse", FALSE)

\* super().__init__(f"...{media_type}"): positional only
VotifyUnsupportedMediaTypeException ==
    VotifyInterfaceException("UnsupportedMediaType", FALSE)

\* The four media exceptions derive from VotifyInterfaceException and call
\* super().__init__(message, media_id=..., media_metadata=...).
VotifyDrmDisabledException == VotifyInterfaceException("DrmDisabled", TRUE)

VotifyMediaNotFoundException == VotifyInterfaceException("MediaNotFound", TRUE)

VotifyMediaUnstreamableException ==
    VotifyInterfaceException("MediaUnstreamable", TRUE)

VotifyMediaAudioQualityNotAvailableException ==
    VotifyInterfaceException("AudioQualityUnavailable", TRUE)

\* ------------------------------------------------------------------------
\* Values yielded by the resolver
\* ------------------------------------------------------------------------
NoTrack == -1

\* a SpotifyMedia as an assembler returns it, for item number id: the
\* assembler has assigned stream_info, and decryption_key where it asks
\* for one (key is None when it does not)
Media(id, kind, key) ==
    [tag |-> "media", id |-> id, what |-> kind, key |-> key,
     stream_info |-> "StreamInfoAv", playlist_track |-> NoTrack]

\* a SpotifyMedia as the constructor leaves it: stream_info and
\* decryption_key are None
SpotifyMedia(id) ==
    [tag |-> "media", id |-> id, what |-> None, key |-> None,
     stream_info |-> None, playlist_track |-> NoTrack]

\* an exception object handed on as a value
Failure(id, exc) ==
    [tag |-> "failure", id |-> id, what |-> exc, key |-> None,
     stream_info |-> None, playlist_track |-> NoTrack]

Return(val, broker) == [ret |-> "return", val |-> val, exc |-> None, broker |-> broker]
Raise(exc, broker) == [ret |-> "raise", val |-> Failure(0, exc), exc |-> exc, broker |-> broker]

\* `return Ctor(...)` / `yield Ctor(...)`: the value when the constructor
\* succeeds, the constructor's own exception otherwise
ReturnNew(id, ctor) ==
    IF ctor.ok THEN Return(Failure(id, ctor.exc), FALSE)
               ELSE Raise(ctor.exc, FALSE)

\* `raise Ctor(...)`
RaiseNew(ctor) == Raise(ctor.exc, FALSE)

\* ------------------------------------------------------------------------
\* What the API serves
\* ------------------------------------------------------------------------
\* One constituent item as the API describes it:
\*   typename  the __typename discriminator of its data
\*   playable  playability.playable
\*   playback  what get_playback_info returns: "none" (no media entry),
\*             "audio", or "video" (manifest_ids_video is non-empty)
\*   pssh      whether the negotiated stream declares a Widevine header
Item(typename, playable, playback, pssh) ==
    [typename |-> typename, playable |-> playable, playback |-> playback,
     pssh |-> pssh]

ItemsOf(typename) ==
    { Item("Other", FALSE, "none", FALSE),
      Item(typename, FALSE, "none", FALSE),
      Item(typename, TRUE, "none", FALSE),
      Item(typename, TRUE, "audio", TRUE),
      Item(typename, TRUE, "video", TRUE),
      Item(typename, TRUE, "video", FALSE) }

TrackItems == ItemsOf("Track")
EpisodeItems == ItemsOf("Episode")
PlaylistItems == TrackItems \cup EpisodeItems

SeqsUpTo(S, n) == UNION { [1..k -> S] : k \in 0..n }

MediaTypes == {"track", "episode", "album", "show", "playlist", "artist"}
ArtistMediaOption == {"albums", "singles", "compilations", "videos"}

\* outcome of the assembler's own requests (metadata, lyrics, credits,
\* manifest, stream URL): "ok", or the exception one of them raised
AsmOutcomes == {"ok", "RequestError"}
\* outcome of the license exchange when the broker is called
BrokerOutcomes == {"ok", "LicenseError"}

\* ------------------------------------------------------------------------
\* SpotifyBaseInterface (src/votify/interface/base.py)
\* ------------------------------------------------------------------------
\* _initialize_cdm: a CDM exists only with a device file and no_drm unset;
\* otherwise no_drm is forced to True.
initialize_cdm(wvd_path, no_drm_arg) ==
    IF wvd_path /\ ~no_drm_arg
        THEN [cdm |-> "Cdm", no_drm |-> no_drm_arg]
        ELSE [cdm |-> None, no_drm |-> TRUE]

\* is_video: bool(playback_info["manifest"].get("manifest_ids_video"))
is_video(item) == item.playback = "video"

\* get_playlist_tags(playlist_data, track): track is stored as given
get_playlist_tags(track) == track

\* The broker as one call: the session is opened, PSSH(None) fails, the
\* license exchange succeeds or fails, and the session is closed.
get_widevine_decryption_key(pssh, brk) ==
    IF ~pssh THEN [ok |-> FALSE, exc |-> "PsshError"]
    ELSE IF brk # "ok" THEN [ok |-> FALSE, exc |-> brk]
    ELSE [ok |-> TRUE, exc |-> None]

\* ------------------------------------------------------------------------
\* Assemblers (song.py, music_video.py, episode.py, episode_video.py)
\* ------------------------------------------------------------------------
\* interface/types.py: the dataclass StreamInfo declares stream_url and
\* widevine_pssh (file_format is a field of StreamInfoAv); its generated
\* __init__ raises TypeError on any other keyword.
StreamInfoFields == {"stream_url", "widevine_pssh"}

StreamInfo(keywords) ==
    IF keywords \subseteq StreamInfoFields
        THEN [ok |-> TRUE, exc |-> None]
        ELSE [ok |-> FALSE, exc |-> "TypeError"]

\* SpotifyAudioInterface.get_stream_info ends with
\* StreamInfo(stream_url=..., widevine_pssh=..., file_format="mp4")
AudioStreamInfo == StreamInfo({"stream_url", "widevine_pssh", "file_format"})

\* SpotifyVideoInterface.get_stream_info builds its two tracks with
\* StreamInfo(stream_url=..., widevine_pssh=...)
VideoStreamInfo == StreamInfo({"stream_url", "widevine_pssh"})

\* SpotifySongInterface.proccess_media: metadata, lyrics, tags, cover,
\* stream info (with the seek table's pssh), then the key broker.
song_proccess_media(id, asm, brk) ==
    IF asm # "ok" THEN Raise(asm, FALSE)
    ELSE IF ~AudioStreamInfo.ok THEN Raise(AudioStreamInfo.exc, FALSE)
    ELSE LET k == get_widevine_decryption_key(TRUE, brk) IN
         IF k.ok THEN Return(Media(id, "song", "widevine"), TRUE)
                 ELSE Raise(k.exc, TRUE)

\* SpotifyMusicVideoInterface.proccess_media: the broker is called with
\* whatever widevine_pssh the manifest gave, None included.
music_video_proccess_media(id, item, asm, brk) ==
    IF asm # "ok" THEN Raise(asm, FALSE)
    ELSE IF ~VideoStreamInfo.ok THEN Raise(VideoStreamInfo.exc, FALSE)
    ELSE LET k == get_widevine_decryption_key(item.pssh, brk) IN
         IF k.ok THEN Return(Media(id, "music_video", "widevine"), TRUE)
                 ELSE Raise(k.exc, TRUE)

\* SpotifyEpisodeInterface.proccess_media: skip_pssh=True and the constant
\* DEFAULT_EPISODE_DECRYPTION_KEY; the broker is not called.
episode_proccess_media(id, asm) ==
    IF asm # "ok" THEN Raise(asm, FALSE)
    ELSE IF ~AudioStreamInfo.ok THEN Raise(AudioStreamInfo.exc, FALSE)
    ELSE Return(Media(id, "podcast", "default"), FALSE)

\* SpotifyEpisodeVideoInterface.proccess_media
episode_video_proccess_media(nodrm, id, item, asm, brk) ==
    IF asm # "ok" THEN Raise(asm, FALSE)
    ELSE IF ~VideoStreamInfo.ok THEN Raise(VideoStreamInfo.exc, FALSE)
    ELSE IF item.pssh
        THEN IF nodrm THEN RaiseNew(VotifyDrmDisabledException)
             ELSE LET k == get_widevine_decryption_key(item.pssh, brk) IN
                  IF k.ok THEN Return(Media(id, "podcast_video", "widevine"), TRUE)
                          ELSE Raise(k.exc, TRUE)
        ELSE Return(Media(id, "podcast_video", None), FALSE)

\* ------------------------------------------------------------------------
\* SpotifyInterface (src/votify/interface/interface.py)
\* ------------------------------------------------------------------------
\* a handler that hands on the object under construction
CaughtReturnsMedia(id, r) ==
    IF r.ret = "raise" THEN Return(SpotifyMedia(id), r.broker) ELSE r

\* try: ... except BaseException as e: return e
Caught(id, r) ==
    IF r.ret = "raise" THEN Return(Failure(id, r.exc), r.broker) ELSE r

get_track_media(nodrm, id, item, asm, brk) ==
    IF nodrm THEN ReturnNew(id, VotifyDrmDisabledException)
    ELSE IF item.typename # "Track"
        THEN ReturnNew(id, VotifyMediaNotFoundException)
    ELSE IF ~item.playable
        THEN ReturnNew(id, VotifyMediaUnstreamableException)
    ELSE IF item.playback = "none" THEN Raise("AssertionError", FALSE)
    ELSE IF is_video(item)
        THEN Caught(id, music_video_proccess_media(id, item, asm, brk))
    ELSE Caught(id, song_proccess_media(id, asm, brk))

get_episode_media(nodrm, id, item, asm, brk) ==
    IF item.typename # "Episode"
        THEN ReturnNew(id, VotifyMediaNotFoundException)
    ELSE IF ~item.playable
        THEN ReturnNew(id, VotifyMediaUnstreamableException)
    ELSE IF item.playback = "none" THEN Raise("AssertionError", FALSE)
    ELSE IF is_video(item)
        THEN Caught(id, episode_video_proccess_media(nodrm, id, item, asm, brk))
    ELSE Caught(id, episode_proccess_media(id, asm))

\* ------------------------------------------------------------------------
\* get_media_by_url as a generator: one action per resumption
\* ------------------------------------------------------------------------
\* The generator hands outcome r to its consumer: a returned value is
\* yielded and the generator goes on at nextpc, a raised exception leaves
\* the generator and ends the sequence.
Deliver(r, nextpc) ==
    /\ brokerCalls' = brokerCalls + (IF r.broker THEN 1 ELSE 0)
    /\ cdmTouched' = (cdmTouched \/ r.broker)
    /\ IF r.ret = "return"
          THEN /\ results' = Append(results, r.val)
               /\ raised' = raised
               /\ pc' = nextpc
          ELSE /\ results' = results
               /\ raised' = r.exc
               /\ pc' = "done"

\* the playlist loop: the resolved object gets its playlist tags and the
\* loop goes on to the next item; nothing is yielded
Tagged(val, index) == [val EXCEPT !.playlist_track = get_playlist_tags(index)]

KeepPlaylist(r, index) ==
    /\ brokerCalls' = brokerCalls + (IF r.broker THEN 1 ELSE 0)
    /\ cdmTouched' = (cdmTouched \/ r.broker)
    /\ results' = results
    /\ IF r.ret = "return"
          THEN /\ resolved' = Append(resolved, Tagged(r.val, index))
               /\ raised' = raised
               /\ pc' = "playlist_items"
               /\ idx' = idx + 1
          ELSE /\ resolved' = resolved
               /\ raised' = r.exc
               /\ pc' = "done"
               /\ idx' = idx

config == <<no_drm, cdm, disallowed_media_types, artist_media_option, url, server>>

\* a resolver that dispatches on the media type without looking at the
\* disallowed types
media_type_never_disallowed(url_info, disallowed) == FALSE

\* if url_info.media_type in self.base.disallowed_media_types
media_type_disallowed(url_info, disallowed) == url_info.media_type \in disallowed

\* get_media_by_url up to its dispatch on the media type
GetMediaByUrl ==
    /\ pc = "start"
    /\ IF ~url.valid
          THEN /\ raised' = VotifyUrlParseException.exc
               /\ pc' = "done"
               /\ UNCHANGED <<results, brokerCalls, cdmTouched>>
          ELSE IF media_type_disallowed(url, disallowed_media_types)
          THEN Deliver(ReturnNew(0, VotifyUnsupportedMediaTypeException), "done")
          ELSE /\ pc' = url.media_type
               /\ UNCHANGED <<results, raised, brokerCalls, cdmTouched>>
    /\ UNCHANGED <<config, idx, rel, resolved>>
    /\ UNCHANGED notResolver

\* elif media_type == "track": yield await self._get_track_media(media_id)
TrackUrl ==
    /\ pc = "track"
    /\ \E asm \in AsmOutcomes, brk \in BrokerOutcomes :
          Deliver(get_track_media(no_drm, 1, server.items[1], asm, brk), "done")
    /\ UNCHANGED <<config, idx, rel, resolved>>
    /\ UNCHANGED notResolver

\* elif media_type == "episode": yield await self._get_episode_media(media_id)
EpisodeUrl ==
    /\ pc = "episode"
    /\ \E asm \in AsmOutcomes, brk \in BrokerOutcomes :
          Deliver(get_episode_media(no_drm, 1, server.items[1], asm, brk), "done")
    /\ UNCHANGED <<config, idx, rel, resolved>>
    /\ UNCHANGED notResolver

\* _get_album_media up to its loop; after `yield ...; return` and after the
\* not-found yield the loop is not entered (idx is put past the last item)
AlbumOpen ==
    /\ pc = "album"
    /\ IF no_drm
          THEN /\ Deliver(ReturnNew(0, VotifyDrmDisabledException), "album_items")
               /\ idx' = Len(server.items) + 1
          ELSE IF ~server.album_ok
          THEN /\ Deliver(ReturnNew(0, VotifyMediaNotFoundException), "album_items")
               /\ idx' = Len(server.items) + 1
          ELSE /\ pc' = "album_items"
               /\ idx' = 1
               /\ UNCHANGED <<results, raised, brokerCalls, cdmTouched>>
    /\ UNCHANGED <<config, rel, resolved>>
    /\ UNCHANGED notResolver

\* one iteration of `for item in album_items`
AlbumItem ==
    /\ pc = "album_items"
    /\ idx <= Len(server.items)
    /\ \E asm \in AsmOutcomes, brk \in BrokerOutcomes :
          Deliver(get_track_media(no_drm, idx, server.items[idx], asm, brk),
                  "album_items")
    /\ idx' = idx + 1
    /\ UNCHANGED <<config, rel, resolved>>
    /\ UNCHANGED notResolver

\* _get_album_media is exhausted: back in get_media_by_url or in the
\* release loop of _get_artist_media_albums
AlbumEnd ==
    /\ pc = "album_items"
    /\ idx > Len(server.items)
    /\ IF url.media_type = "artist" /\ rel < server.releases
          THEN pc' = "album" /\ rel' = rel + 1
          ELSE pc' = "done" /\ rel' = rel
    /\ UNCHANGED <<config, idx, results, resolved, raised, brokerCalls, cdmTouched>>
    /\ UNCHANGED notResolver

\* _get_show_media up to its loop
ShowOpen ==
    /\ pc = "show"
    /\ IF ~server.root_ok
          THEN Deliver(ReturnNew(0, VotifyMediaNotFoundException), "done")
          ELSE /\ pc' = "show_items"
               /\ UNCHANGED <<results, raised, brokerCalls, cdmTouched>>
    /\ idx' = 1
    /\ UNCHANGED <<config, rel, resolved>>
    /\ UNCHANGED notResolver

\* one iteration of `for item in show_items`
ShowItem ==
    /\ pc = "show_items"
    /\ idx <= Len(server.items)
    /\ \E asm \in AsmOutcomes, brk \in BrokerOutcomes :
          Deliver(get_episode_media(no_drm, idx, server.items[idx], asm, brk),
                  "show_items")
    /\ idx' = idx + 1
    /\ UNCHANGED <<config, rel, resolved>>
    /\ UNCHANGED notResolver

ShowEnd ==
    /\ pc = "show_items"
    /\ idx > Len(server.items)
    /\ pc' = "done"
    /\ UNCHANGED <<config, idx, rel, results, resolved, raised, brokerCalls, cdmTouched>>
    /\ UNCHANGED notResolver

\* _get_playlist_media up to its loop (all pages fetched)
PlaylistOpen ==
    /\ pc = "playlist"
    /\ IF ~server.root_ok
          THEN Deliver(ReturnNew(0, VotifyMediaNotFoundException), "done")
          ELSE /\ pc' = "playlist_items"
               /\ UNCHANGED <<results, raised, brokerCalls, cdmTouched>>
    /\ idx' = 1
    /\ UNCHANGED <<config, rel, resolved>>
    /\ UNCHANGED notResolver

\* one iteration of `for index, item in enumerate(playlist_items)`;
\* idx is the 1-based position, index = idx - 1 is what enumerate gives
PlaylistItem ==
    /\ pc = "playlist_items"
    /\ idx <= Len(server.items)
    /\ LET item == server.items[idx]
           index == idx - 1
       IN  \E asm \in AsmOutcomes, brk \in BrokerOutcomes :
              IF item.typename = "Track"
                 THEN KeepPlaylist(get_track_media(no_drm, idx, item, asm, brk), index)
              ELSE IF item.typename = "Episode"
                 THEN KeepPlaylist(get_episode_media(no_drm, idx, item, asm, brk), index)
              ELSE /\ Deliver(ReturnNew(idx, VotifyMediaNotFoundException), "done")
                   /\ UNCHANGED <<idx, resolved>>
    /\ UNCHANGED <<config, rel>>
    /\ UNCHANGED notResolver

PlaylistEnd ==
    /\ pc = "playlist_items"
    /\ idx > Len(server.items)
    /\ pc' = "done"
    /\ UNCHANGED <<config, idx, rel, results, resolved, raised, brokerCalls, cdmTouched>>
    /\ UNCHANGED notResolver

\* _get_artist_media with _get_artist_media_albums / _get_artist_media_videos
\* up to their loops; the selection is every listed release or video
ArtistOpen ==
    /\ pc = "artist"
    /\ LET n == IF artist_media_option = "videos" THEN Len(server.items)
                                                  ELSE server.releases
       IN  IF ~server.root_ok \/ n = 0
              THEN /\ Deliver(ReturnNew(0, VotifyMediaNotFoundException), "done")
                   /\ rel' = rel
              ELSE /\ pc' = IF artist_media_option = "videos"
                               THEN "artist_videos" ELSE "album"
                   /\ rel' = 1
                   /\ UNCHANGED <<results, raised, brokerCalls, cdmTouched>>
    /\ idx' = 1
    /\ UNCHANGED <<config, resolved>>
    /\ UNCHANGED notResolver

\* one iteration of `for video_item in selection`
ArtistVideo ==
    /\ pc = "artist_videos"
    /\ idx <= Len(server.items)
    /\ \E asm \in AsmOutcomes, brk \in BrokerOutcomes :
          Deliver(get_track_media(no_drm, idx, server.items[idx], asm, brk),
                  "artist_videos")
    /\ idx' = idx + 1
    /\ UNCHANGED <<config, rel, resolved>>
    /\ UNCHANGED notResolver

ArtistVideosEnd ==
    /\ pc = "artist_videos"
    /\ idx > Len(server.items)
    /\ pc' = "done"
    /\ UNCHANGED <<config, idx, rel, results, resolved, raised, brokerCalls, cdmTouched>>
    /\ UNCHANGED notResolver

\* ------------------------------------------------------------------------
\* Initial states of the resolver
\* ------------------------------------------------------------------------
Server(root_ok, album_ok, items, releases) ==
    [root_ok |-> root_ok, album_ok |-> album_ok, items |-> items,
     releases |-> releases]

Urls == {[valid |-> FALSE, media_type |-> None]}
            \cup {[valid |-> TRUE, media_type |-> t] : t \in MediaTypes}

\* what the API can serve for a URL of the given media type
ServerFor(media_type, option) ==
    CASE media_type = "track" ->
            {Server(TRUE, TRUE, its, 0) : its \in [1..1 -> TrackItems]}
      [] media_type = "episode" ->
            {Server(TRUE, TRUE, its, 0) : its \in [1..1 -> EpisodeItems]}
      [] media_type = "album" ->
            {Server(TRUE, TRUE, its, 0) : its \in SeqsUpTo(TrackItems, MaxItems)}
                \cup {Server(FALSE, FALSE, <<>>, 0)}
      [] media_type = "show" ->
            {Server(TRUE, TRUE, its, 0) : its \in SeqsUpTo(EpisodeItems, MaxItems)}
                \cup {Server(FALSE, TRUE, <<>>, 0)}
      [] media_type = "playlist" ->
            {Server(TRUE, TRUE, its, 0) : its \in SeqsUpTo(PlaylistItems, MaxItems)}
                \cup {Server(FALSE, TRUE, <<>>, 0)}
      [] media_type = "artist" /\ option = "videos" ->
            {Server(TRUE, TRUE, its, 0) : its \in SeqsUpTo(TrackItems, MaxItems)}
                \cup {Server(FALSE, TRUE, <<>>, 0)}
      [] media_type = "artist" /\ option # "videos" ->
            {Server(TRUE, TRUE, its, n) :
                its \in SeqsUpTo(TrackItems, MaxItems), n \in 1..MaxReleases}
                \cup {Server(TRUE, TRUE, <<>>, 0), Server(FALSE, TRUE, <<>>, 0)}
      [] OTHER -> {Server(TRUE, TRUE, <<>>, 0)}

InitResolver ==
    /\ \E wvd_path \in BOOLEAN, no_drm_arg \in BOOLEAN :
          /\ cdm = initialize_cdm(wvd_path, no_drm_arg).cdm
          /\ no_drm = initialize_cdm(wvd_path, no_drm_arg).no_drm
    /\ url \in Urls
    /\ disallowed_media_types \in SUBSET ({url.media_type} \cap MediaTypes)
    /\ artist_media_option \in
          IF url.media_type = "artist" /\ disallowed_media_types = {}
             THEN ArtistMediaOption ELSE {None}
    /\ server \in IF disallowed_media_types = {}
                     THEN ServerFor(url.media_type, artist_media_option)
                     ELSE {Server(TRUE, TRUE, <<>>, 0)}
    /\ pc = "start"
    /\ idx = 1
    /\ rel = 1
    /\ results = <<>>
    /\ resolved = <<>>
    /\ raised = None
    /\ brokerCalls = 0
    /\ cdmTouched = FALSE

\* the resolver at rest, for the specifications of the other components
IdleResolver ==
    /\ no_drm = FALSE
    /\ cdm = "Cdm"
    /\ disallowed_media_types = {}
    /\ artist_media_option = None
    /\ url = [valid |-> TRUE, media_type |-> "track"]
    /\ server = Server(TRUE, TRUE, <<>>, 0)
    /\ pc = "done"
    /\ idx = 1
    /\ rel = 1
    /\ results = <<>>
    /\ resolved = <<>>
    /\ raised = None
    /\ brokerCalls = 0
    /\ cdmTouched = FALSE

\* ------------------------------------------------------------------------
\* The key broker step by step (base.py, _get_widevine_decryption_key)
\* ------------------------------------------------------------------------
\* kb_pc      the statement the call is at, "idle" between calls
\* kb_pssh    the pssh argument: TRUE for a header, FALSE for None
\* cdm_session  the local of that name, "unbound" before cdm.open() returns
\* kb_exc     the exception in flight while the finally clause runs
\* sessions   the sessions the CDM holds open
\* opened, closed   per call, the session ids it opened / closed, in order
\* used       pairs <<call, session>>: the call handed the session to the CDM
Unbound == 0

\* how the last call ended: "return" with a DecryptionKey or "raise" with exc
KbOut(status, exc) == [status |-> status, exc |-> exc]

\* MAX_NUM_OF_SESSIONS = float("inf") (base.py:68): open() has no
\* TooManySessions outcome.  Session ids are fresh for every open().
cdm_open == nextSession

\* where control goes when a statement of the try block raises
TryHandlerNoFinally == "idle"

TryHandler == "close"

\* a statement of the try block raises exc
KbRaise(exc) ==
    /\ kb_exc' = exc
    /\ kb_pc' = TryHandler

KbUse == used' = used \cup {<<kb_call, cdm_session>>}

\* a caller enters the broker
KbCall ==
    /\ kb_pc = "idle"
    /\ kb_call < MaxCalls
    /\ kb_call' = kb_call + 1
    /\ kb_pssh' \in BOOLEAN
    /\ kb_pc' = "open"
    /\ cdm_session' = Unbound
    /\ kb_exc' = None
    /\ kb_out' = KbOut("running", None)
    /\ UNCHANGED <<sessions, nextSession, opened, closed, used>>
    /\ UNCHANGED notBroker

\* cdm_session = self.cdm.open()
KbOpen ==
    /\ kb_pc = "open"
    /\ IF cdm = None
          THEN /\ KbRaise("AttributeError")
               /\ UNCHANGED <<cdm_session, sessions, nextSession, opened>>
          ELSE /\ cdm_session' = cdm_open
               /\ sessions' = sessions \cup {cdm_open}
               /\ nextSession' = nextSession + 1
               /\ opened' = [opened EXCEPT ![kb_call] = Append(@, cdm_open)]
               /\ kb_pc' = "pssh"
               /\ kb_exc' = kb_exc
    /\ UNCHANGED <<kb_pssh, kb_call, kb_out, closed, used>>
    /\ UNCHANGED notBroker

\* pssh = PSSH(pssh): None is rejected, a header may be malformed
KbPssh ==
    /\ kb_pc = "pssh"
    /\ \E wellformed \in BOOLEAN :
          IF kb_pssh /\ wellformed
             THEN kb_pc' = "challenge" /\ kb_exc' = kb_exc
             ELSE KbRaise("PsshError")
    /\ UNCHANGED <<kb_pssh, cdm_session, kb_call, kb_out, sessions, nextSession,
                   opened, closed, used>>
    /\ UNCHANGED notBroker

\* challenge = self.cdm.get_license_challenge(cdm_session, pssh)
KbChallenge ==
    /\ kb_pc = "challenge"
    /\ KbUse
    /\ \E ok \in BOOLEAN :
          IF ok /\ cdm_session \in sessions
             THEN kb_pc' = "license" /\ kb_exc' = kb_exc
             ELSE KbRaise("ChallengeError")
    /\ UNCHANGED <<kb_pssh, cdm_session, kb_call, kb_out, sessions, nextSession,
                   opened, closed>>
    /\ UNCHANGED notBroker

\* license = await self.api.get_widevine_license(challenge, media_type)
KbLicense ==
    /\ kb_pc = "license"
    /\ \E ok \in BOOLEAN :
          IF ok THEN kb_pc' = "parse" /\ kb_exc' = kb_exc
                ELSE KbRaise("LicenseError")
    /\ UNCHANGED <<kb_pssh, cdm_session, kb_call, kb_out, sessions, nextSession,
                   opened, closed, used>>
    /\ UNCHANGED notBroker

\* self.cdm.parse_license(cdm_session, license)
KbParseLicense ==
    /\ kb_pc = "parse"
    /\ KbUse
    /\ \E ok \in BOOLEAN :
          IF ok /\ cdm_session \in sessions
             THEN kb_pc' = "keys" /\ kb_exc' = kb_exc
             ELSE KbRaise("ParseLicenseError")
    /\ UNCHANGED <<kb_pssh, cdm_session, kb_call, kb_out, sessions, nextSession,
                   opened, closed>>
    /\ UNCHANGED notBroker

\* keys = next(i for i in self.cdm.get_keys(cdm_session) if i.type == "CONTENT")
KbGetKeys ==
    /\ kb_pc = "keys"
    /\ KbUse
    /\ \E has_content_key \in BOOLEAN :
          IF has_content_key /\ cdm_session \in sessions
             THEN kb_pc' = "close" /\ kb_exc' = kb_exc
             ELSE KbRaise("StopIteration")
    /\ UNCHANGED <<kb_pssh, cdm_session, kb_call, kb_out, sessions, nextSession,
                   opened, closed>>
    /\ UNCHANGED notBroker

\* finally: self.cdm.close(cdm_session); then the return, or the exception
\* in flight goes on to the caller
KbClose ==
    /\ kb_pc = "close"
    /\ IF cdm = None
          THEN /\ kb_out' = KbOut("raise", "AttributeError")
               /\ UNCHANGED <<sessions, closed>>
          ELSE IF cdm_session = Unbound
          THEN /\ kb_out' = KbOut("raise", "UnboundLocalError")
               /\ UNCHANGED <<sessions, closed>>
          ELSE /\ sessions' = sessions \ {cdm_session}
               /\ closed' = [closed EXCEPT ![kb_call] = Append(@, cdm_session)]
               /\ kb_out' = IF kb_exc = None THEN KbOut("return", None)
                                             ELSE KbOut("raise", kb_exc)
    /\ kb_pc' = "idle"
    /\ UNCHANGED <<kb_pssh, cdm_session, kb_exc, kb_call, nextSession, opened, used>>
    /\ UNCHANGED notBroker

InitBroker ==
    /\ kb_pc = "idle"
    /\ kb_pssh = FALSE
    /\ cdm_session = Unbound
    /\ kb_exc = None
    /\ kb_call = 0
    /\ kb_out = KbOut("none", None)
    /\ sessions = {}
    /\ nextSession = 1
    /\ opened = [c \in 1..MaxCalls |-> <<>>]
    /\ closed = [c \in 1..MaxCalls |-> <<>>]
    /\ used = {}

\* ------------------------------------------------------------------------
\* Audio quality (enums.py, constants.py)
\* ------------------------------------------------------------------------
AudioQuality == {"vorbis-high", "vorbis-medium", "vorbis-low", "aac-medium", "aac-high"}

AAC_AUDIO_QUALITIES == {"aac-high", "aac-medium"}
PREMIUM_AUDIO_QUALITIES == {"aac-high", "vorbis-high"}

\* FORMAT_ID_MAP.get(value): None for a quality that is not a key
FORMAT_ID_MAP(q) ==
    CASE q = "aac-high" -> "11"
      [] q = "aac-medium" -> "10"
      [] OTHER -> None

premium(q) == q \in PREMIUM_AUDIO_QUALITIES
mp4(q) == q \in AAC_AUDIO_QUALITIES
format_id(q) == FORMAT_ID_MAP(q)

previous_quality(q) ==
    IF ~mp4(q)
        THEN CASE q = "vorbis-high" -> "vorbis-medium"
               [] q = "vorbis-medium" -> "vorbis-low"
               [] OTHER -> None
        ELSE CASE q = "aac-high" -> "aac-medium"
               [] OTHER -> None

\* ------------------------------------------------------------------------
\* SpotifyAudioInterface.get_stream_info (audio.py)
\* ------------------------------------------------------------------------
\* file_ids_mp4 is the manifest's list of [format, file_id] entries; a
\* file_id is the (non-empty) identifier of the file, here its position.
NoFile == 0

RECURSIVE parse_file_id_from(_, _, _)
parse_file_id_from(files, fmt, i) ==
    IF i > Len(files) THEN NoFile
    ELSE IF files[i].format = fmt THEN files[i].file_id
    ELSE parse_file_id_from(files, fmt, i + 1)

\* _parse_file_id: the file_id of the first entry of the given format
parse_file_id(files, fmt) == parse_file_id_from(files, fmt, 1)

AqOut(status, exc) == [status |-> status, exc |-> exc]

aqConfig == <<audio_quality, premium_session, file_ids_mp4, skip_pssh>>

\* the entitlement check at the head of get_stream_info
AqCheck ==
    /\ aq_pc = "check"
    /\ IF ~mp4(audio_quality) \/ (premium(audio_quality) /\ ~premium_session)
          THEN /\ aq_out' = AqOut("raise", VotifyMediaAudioQualityNotAvailableException.exc)
               /\ aq_pc' = "done"
               /\ aq_cur' = aq_cur
          ELSE /\ aq_cur' = audio_quality
               /\ aq_pc' = "ladder"
               /\ aq_out' = aq_out
    /\ UNCHANGED <<aqConfig, aq_tried, aq_file_id, aq_api>>
    /\ UNCHANGED notAudio

\* one iteration of `while True`
AqLadder ==
    /\ aq_pc = "ladder"
    /\ aq_tried' = Append(aq_tried, aq_cur)
    /\ LET file_id == parse_file_id(file_ids_mp4, format_id(aq_cur)) IN
       IF file_id = NoFile
          THEN IF previous_quality(aq_cur) = None
                  THEN /\ aq_out' = AqOut("raise", "AssertionError")
                       /\ aq_pc' = "done"
                       /\ UNCHANGED <<aq_cur, aq_file_id>>
                  ELSE /\ aq_cur' = previous_quality(aq_cur)
                       /\ UNCHANGED <<aq_pc, aq_out, aq_file_id>>
          ELSE /\ aq_file_id' = file_id
               /\ aq_pc' = "stream_url"
               /\ UNCHANGED <<aq_cur, aq_out>>
    /\ UNCHANGED <<aqConfig, aq_api>>
    /\ UNCHANGED notAudio

\* stream_info = StreamInfoAv(audio_track=StreamInfo(..., file_format="mp4")):
\* the value get_stream_info returns, or the error of building it
StreamInfoAv ==
    IF AudioStreamInfo.ok THEN AqOut("return", None)
                          ELSE AqOut("raise", AudioStreamInfo.exc)

\* stream_url = await self._get_stream_url(file_id); with skip_pssh the
\* StreamInfoAv is built right after it
AqStreamUrl ==
    /\ aq_pc = "stream_url"
    /\ aq_api' = aq_api \cup {"stream_url"}
    /\ \E ok \in BOOLEAN :
          IF ~ok THEN aq_out' = AqOut("raise", "RequestError") /\ aq_pc' = "done"
          ELSE IF skip_pssh THEN aq_out' = StreamInfoAv /\ aq_pc' = "done"
          ELSE aq_out' = aq_out /\ aq_pc' = "pssh"
    /\ UNCHANGED <<aqConfig, aq_cur, aq_tried, aq_file_id>>
    /\ UNCHANGED notAudio

\* pssh = await self._get_pssh(file_id), then the StreamInfoAv
AqPssh ==
    /\ aq_pc = "pssh"
    /\ aq_api' = aq_api \cup {"seek_table"}
    /\ \E ok \in BOOLEAN :
          aq_out' = IF ok THEN StreamInfoAv ELSE AqOut("raise", "RequestError")
    /\ aq_pc' = "done"
    /\ UNCHANGED <<aqConfig, aq_cur, aq_tried, aq_file_id>>
    /\ UNCHANGED notAudio

\* format ids a manifest may list: the two of FORMAT_ID_MAP and another one
Formats == {"10", "11", "12"}

Manifests ==
    { [i \in 1..Len(fs) |-> [format |-> fs[i], file_id |-> i]] :
        fs \in SeqsUpTo(Formats, MaxFiles) }

InitAudio ==
    /\ audio_quality \in AudioQuality
    /\ premium_session \in BOOLEAN
    /\ file_ids_mp4 \in Manifests
    /\ skip_pssh \in BOOLEAN
    /\ aq_pc = "check"
    /\ aq_cur = audio_quality
    /\ aq_tried = <<>>
    /\ aq_file_id = NoFile
    /\ aq_out = AqOut("running", None)
    /\ aq_api = {}

IdleAudio ==
    /\ audio_quality = "aac-medium"
    /\ premium_session = FALSE
    /\ file_ids_mp4 = <<>>
    /\ skip_pssh = FALSE
    /\ aq_pc = "done"
    /\ aq_cur = "aac-medium"
    /\ aq_tried = <<>>
    /\ aq_file_id = NoFile
    /\ aq_out = AqOut("running", None)
    /\ aq_api = {}

\* ------------------------------------------------------------------------
\* Video profile selection (video.py, enums.py)
\* ------------------------------------------------------------------------
\* int(VideoResolution): the value without its trailing "p"
VideoResolution == {144, 240, 360, 480, 576, 720, 1080}

\* VideoFormat without ASK, which selects interactively
VideoFormat == {"mp4", "webm"}

NoProfile == [id |-> 0, mime_type |-> "ValueError", video_height |-> 0, video_bitrate |-> 0]

\* list(filter(lambda x: x["mime_type"] == mime_type, profiles))
FilterMime(ps, mime_type) == SelectSeq(ps, LAMBDA p : p.mime_type = mime_type)

Heights(ps) == { ps[i].video_height : i \in 1..Len(ps) }

SetMax(S) == CHOOSE x \in S : \A y \in S : y <= x

\* sorted(set(...), reverse=True)
RECURSIVE SortedDesc(_)
SortedDesc(S) ==
    IF S = {} THEN <<>> ELSE <<SetMax(S)>> \o SortedDesc(S \ {SetMax(S)})

\* sorted(set(...)) without reverse=True
RECURSIVE SortedAsc(_)
SortedAsc(S) ==
    IF S = {} THEN <<>> ELSE SortedAsc(S \ {SetMax(S)}) \o <<SetMax(S)>>

\* max(iterable, key=video_bitrate): the first element of greatest bitrate
RECURSIVE MaxByBitrate(_, _, _)
MaxByBitrate(ps, i, best) ==
    IF i > Len(ps) THEN best
    ELSE MaxByBitrate(ps, i + 1,
            IF ps[i].video_bitrate > best.video_bitrate THEN ps[i] ELSE best)

\* min(profiles, key=video_height): the first element of least height
RECURSIVE MinByHeight(_, _, _)
MinByHeight(ps, i, best) ==
    IF i > Len(ps) THEN best
    ELSE MinByHeight(ps, i + 1,
            IF ps[i].video_height < best.video_height THEN ps[i] ELSE best)

\* the for loop over available_resolutions, with the fallback after it
RECURSIVE ByResolutionFrom(_, _, _, _)
ByResolutionFrom(filtered, available, ceiling, i) ==
    IF i > Len(available)
        THEN IF filtered = <<>> THEN NoProfile
             ELSE MinByHeight(filtered, 2, filtered[1])
    ELSE IF available[i] <= ceiling
        THEN LET same == SelectSeq(filtered, LAMBDA p : p.video_height = available[i])
             IN  MaxByBitrate(same, 2, same[1])
    ELSE ByResolutionFrom(filtered, available, ceiling, i + 1)

\* the loop with `res < int(self.resolution)`
RECURSIVE ByResolutionStrictFrom(_, _, _, _)
ByResolutionStrictFrom(filtered, available, ceiling, i) ==
    IF i > Len(available)
        THEN IF filtered = <<>> THEN NoProfile
             ELSE MinByHeight(filtered, 2, filtered[1])
    ELSE IF available[i] < ceiling
        THEN LET same == SelectSeq(filtered, LAMBDA p : p.video_height = available[i])
             IN  MaxByBitrate(same, 2, same[1])
    ELSE ByResolutionStrictFrom(filtered, available, ceiling, i + 1)

get_best_video_profile_strict(ps, mime_type, ceiling) ==
    LET filtered == FilterMime(ps, mime_type)
    IN  ByResolutionStrictFrom(filtered, SortedDesc(Heights(filtered)), ceiling, 1)

get_best_video_profile_ascending(ps, mime_type, ceiling) ==
    LET filtered == FilterMime(ps, mime_type)
    IN  ByResolutionFrom(filtered, SortedAsc(Heights(filtered)), ceiling, 1)

\* _get_best_video_profile_by_resolution; ceiling is int(self.resolution)
get_best_video_profile_by_resolution(ps, mime_type, ceiling) ==
    LET filtered == FilterMime(ps, mime_type)
    IN  ByResolutionFrom(filtered, SortedDesc(Heights(filtered)), ceiling, 1)

\* get_stream_info's call: mime type f"video/{self.video_format.value}"
VpSelect ==
    /\ vp_pc = "select"
    /\ vp_out' = get_best_video_profile_by_resolution(
                    profiles, IF video_format = "mp4" THEN "video/mp4" ELSE "video/webm",
                    resolution)
    /\ vp_pc' = "done"
    /\ UNCHANGED <<profiles, resolution, video_format>>
    /\ UNCHANGED notVideo

\* heights and bitrates the manifests of the model offer
ProfileHeights == {240, 720}
ProfileBitrates == {1, 2}
VideoMimeTypes == {"video/mp4", "video/webm"}

ProfileSets ==
    { [i \in 1..Len(ps) |-> [id |-> i, mime_type |-> ps[i][1],
                             video_height |-> ps[i][2], video_bitrate |-> ps[i][3]]] :
        ps \in SeqsUpTo(VideoMimeTypes \X ProfileHeights \X ProfileBitrates, MaxProfiles) }

InitVideo ==
    /\ profiles \in ProfileSets
    /\ resolution \in VideoResolution
    /\ video_format \in VideoFormat
    /\ vp_pc = "select"
    /\ vp_out = NoProfile

IdleVideo ==
    /\ profiles = <<>>
    /\ resolution = 1080
    /\ video_format = "mp4"
    /\ vp_pc = "done"
    /\ vp_out = NoProfile

\* ------------------------------------------------------------------------
\* Collection cache (src/votify/interface/base.py)
\*
\* get_album_data_cached and get_show_data_cached are methods decorated
\* with @alru_cache(): the memo key is built from the call's arguments,
\* self included.  Every assembler is an object of its own (constructed
\* with self.__dict__.update(base.__dict__)), so the key of a call is
\* (function, calling object, id).
\* ------------------------------------------------------------------------
CacheFns == {"album", "show"}
AlbumIds == {"x", "y"}
ShowIds == {"s"}
CollectionIds == AlbumIds \cup ShowIds
Ids(fn) == IF fn = "album" THEN AlbumIds ELSE ShowIds
PageSize == 2

\* the objects that call each cached method
Callers(fn) ==
    IF fn = "album" THEN {"base", "song", "music_video"}
                    ELSE {"base", "episode", "episode_video"}

CacheKey(fn, self, id) == [fn |-> fn, self |-> self, id |-> id]
NoKey == CacheKey("none", "none", "none")

Entry(key, total, len) == [key |-> key, total |-> total, len |-> len]
Handed(key, total, len, hit) ==
    [key |-> key, total |-> total, len |-> len, hit |-> hit]

Min(a, b) == IF a < b THEN a ELSE b

\* the items a page request returns when `have` are already held
PageLens(total, have) ==
    IF have >= total THEN {0} ELSE 1..Min(PageSize, total - have)

\* a fetch that stops after its first page
pagination_done_first_page(len, total) == TRUE

\* while len(items) < totalCount: ... ; the loop is left when this holds
pagination_done(len, total) == ~(len < total)

\* a call whose key is memoized: the stored pair is handed out
CacheHit ==
    /\ cf_pc = "idle"
    /\ cf_calls < MaxResolutions
    /\ \E fn \in CacheFns :
          \E id \in Ids(fn), self \in Callers(fn) :
             \E e \in lru :
                /\ e.key = CacheKey(fn, self, id)
                /\ handed' = handed \cup {Handed(e.key, e.total, e.len, TRUE)}
    /\ cf_calls' = cf_calls + 1
    /\ UNCHANGED <<api_total, lru, cf_pc, cf_key, cf_items, fetched>>
    /\ UNCHANGED notCache

\* a call whose key is not memoized: the first page is requested
CacheMiss ==
    /\ cf_pc = "idle"
    /\ cf_calls < MaxResolutions
    /\ \E fn \in CacheFns :
          \E id \in Ids(fn), self \in Callers(fn), api \in AsmOutcomes :
             /\ \A e \in lru : e.key # CacheKey(fn, self, id)
             /\ IF api = "ok"
                   THEN /\ cf_pc' = "paging"
                        /\ cf_key' = CacheKey(fn, self, id)
                        /\ cf_items' \in PageLens(api_total[id], 0)
                   ELSE /\ cf_pc' = "idle"
                        /\ cf_key' = NoKey
                        /\ cf_items' = 0
    /\ cf_calls' = cf_calls + 1
    /\ UNCHANGED <<api_total, lru, fetched, handed>>
    /\ UNCHANGED notCache

\* one iteration of the while loop: get_album(id, offset=len(items))
CachePage ==
    /\ cf_pc = "paging"
    /\ ~pagination_done(cf_items, api_total[cf_key.id])
    /\ \E api \in AsmOutcomes :
          IF api = "ok"
             THEN /\ \E n \in PageLens(api_total[cf_key.id], cf_items) :
                        cf_items' = cf_items + n
                  /\ UNCHANGED <<cf_pc, cf_key>>
             ELSE /\ cf_pc' = "idle"
                  /\ cf_key' = NoKey
                  /\ cf_items' = 0
    /\ UNCHANGED <<api_total, lru, cf_calls, fetched, handed>>
    /\ UNCHANGED notCache

\* return album_data, album_items: the pair is memoized and handed out
CacheReturn ==
    /\ cf_pc = "paging"
    /\ pagination_done(cf_items, api_total[cf_key.id])
    /\ lru' = lru \cup {Entry(cf_key, api_total[cf_key.id], cf_items)}
    /\ handed' = handed \cup
          {Handed(cf_key, api_total[cf_key.id], cf_items, FALSE)}
    /\ fetched' = [fetched EXCEPT ![cf_key.id] = @ + 1]
    /\ cf_pc' = "idle"
    /\ cf_key' = NoKey
    /\ cf_items' = 0
    /\ UNCHANGED <<api_total, cf_calls>>
    /\ UNCHANGED notCache

InitCache ==
    /\ api_total \in [CollectionIds -> 0..MaxTotal]
    /\ lru = {}
    /\ cf_pc = "idle"
    /\ cf_key = NoKey
    /\ cf_items = 0
    /\ cf_calls = 0
    /\ fetched = [k \in CollectionIds |-> 0]
    /\ handed = {}

IdleCache ==
    /\ api_total = [k \in CollectionIds |-> 0]
    /\ lru = {}
    /\ cf_pc = "idle"
    /\ cf_key = NoKey
    /\ cf_items = 0
    /\ cf_calls = MaxResolutions
    /\ fetched = [k \in CollectionIds |-> 0]
    /\ handed = {}

\* ------------------------------------------------------------------------
\* SpotifyDownloader.download (src/votify/downloader/downloader.py)
\* ------------------------------------------------------------------------
Exc(name, arg) == [name |-> name, arg |-> arg]
NoExc == Exc(None, None)

\* downloader/exceptions.py
VotifySyncedLyricsOnly == Exc("VotifySyncedLyricsOnly", None)
VotifyMediaFileExists == Exc("VotifyMediaFileExists", "final_path")
VotifyDependencyNotFound(dependency) == Exc("VotifyDependencyNotFound", dependency)

\* the binaries looked up by _initialize_full_binaries_path, under the names
\* _download reports them with
Tools == {"aria2c", "cURL", "ffmpeg", "MP4Box", "mp4decrypt", "Shaka Packager"}
AudioTools == {"aria2c", "cURL", "ffmpeg", "MP4Box", "mp4decrypt"}
VideoTools == {"ffmpeg", "MP4Box", "mp4decrypt", "Shaka Packager"}

AudioDownloadMode == {"ytdlp", "aria2c", "curl"}
AudioRemuxMode == {"ffmpeg", "mp4box", "mp4decrypt"}
VideoRemuxMode == {"ffmpeg", "mp4box"}

AudioMediaTypes == {"song", "podcast"}
VideoMediaTypes == {"music_video", "podcast_video"}

\* item.media.stream_info.<track>.file_format: <track> is a StreamInfo, and
\* reading an attribute that the dataclass does not declare raises
\* AttributeError
track_file_format ==
    IF "file_format" \in StreamInfoFields
        THEN [ok |-> TRUE, exc |-> NoExc]
        ELSE [ok |-> FALSE, exc |-> Exc("AttributeError", "file_format")]

\* SpotifyAudioDownloader.download: its first statement computes
\* encrypted_path from item.media.stream_info.audio_track.file_format
audio_download == track_file_format.exc

\* SpotifyVideoDownloader.download: its first statement computes
\* encrypted_video_path from item.media.stream_info.video_track.file_format
video_download == track_file_format.exc

\* _download, lines 76-146: the dependency checks of the item's kind, then
\* the kind's download
dependency_checks(c, item) ==
    IF item.media_type \in AudioMediaTypes THEN
        IF c.download_mode = "aria2c" /\ "aria2c" \notin c.tools
            THEN VotifyDependencyNotFound("aria2c")
        ELSE IF c.download_mode = "curl" /\ "cURL" \notin c.tools
            THEN VotifyDependencyNotFound("cURL")
        ELSE IF mp4(c.audio_quality) /\ c.audio_remux_mode = "ffmpeg"
                /\ "ffmpeg" \notin c.tools
            THEN VotifyDependencyNotFound("ffmpeg")
        ELSE IF mp4(c.audio_quality) /\ c.audio_remux_mode = "mp4box"
                /\ "MP4Box" \notin c.tools
            THEN VotifyDependencyNotFound("MP4Box")
        ELSE IF mp4(c.audio_quality)
                /\ c.audio_remux_mode \in {"mp4decrypt", "mp4box"}
                /\ "mp4decrypt" \notin c.tools
            THEN VotifyDependencyNotFound("mp4decrypt")
        ELSE audio_download
    ELSE
        IF c.video_remux_mode = "ffmpeg" /\ "ffmpeg" \notin c.tools
            THEN VotifyDependencyNotFound("ffmpeg")
        ELSE IF c.video_remux_mode = "mp4box" /\ "MP4Box" \notin c.tools
            THEN VotifyDependencyNotFound("MP4Box")
        ELSE IF item.decryption_key /\ ~track_file_format.ok
            THEN track_file_format.exc
        ELSE video_download

\* a _download that does not look at the final path
final_path_never_taken(exists, overwrite) == FALSE

\* if item.final_path and Path(item.final_path).exists() and not self.overwrite
final_path_taken(exists, overwrite) == exists /\ ~overwrite

\* a _download that tests the final path before synced_lyrics_only
_download_exists_first(c, item, exists) ==
    IF final_path_taken(exists, c.overwrite) THEN VotifyMediaFileExists
    ELSE IF c.synced_lyrics_only THEN VotifySyncedLyricsOnly
    ELSE dependency_checks(c, item)

\* SpotifyDownloader._download: the exception it ends with
_download(c, item, exists) ==
    IF c.synced_lyrics_only THEN VotifySyncedLyricsOnly
    ELSE IF final_path_taken(exists, c.overwrite) THEN VotifyMediaFileExists
    ELSE dependency_checks(c, item)

\* a download() without the finally clause
OnRaiseNoFinally == "done"

\* download(): an exception raised inside the try block runs the finally
\* clause before it leaves the call
OnRaise == "finally"

\* outcomes of get_cover_bytes: 200 with content, 404, or any status that
\* raise_for_status turns into HTTPStatusError
CoverResponses == {"bytes", "none", "HTTPStatusError"}

\* _initial_processing: the cover file, then the synced lyrics file
DlInitialProcessing ==
    /\ dl_pc = "initial"
    /\ \E cover \in CoverResponses, cover_exists \in BOOLEAN,
          lyrics_synced \in BOOLEAN, lrc_exists \in BOOLEAN :
          LET c == dl_cfg
              get_cover == ~c.skip_processing /\ c.save_cover_file
              write_cover == get_cover /\ cover = "bytes"
                                /\ (c.overwrite \/ ~cover_exists)
              failed == get_cover /\ cover = "HTTPStatusError"
              write_lrc == /\ ~c.skip_processing /\ ~failed
                           /\ dl_item.media_type \in AudioMediaTypes
                           /\ ~c.no_synced_lyrics_file
                           /\ lyrics_synced
                           /\ (c.overwrite \/ ~lrc_exists)
          IN /\ dl_effects' = dl_effects
                    \cup (IF get_cover THEN {"get_cover_bytes"} ELSE {})
                    \cup (IF write_cover THEN {"write_cover_file"} ELSE {})
                    \cup (IF write_lrc THEN {"write_synced_lyrics_file"} ELSE {})
             /\ dl_exc' = IF failed THEN Exc("HTTPStatusError", None) ELSE NoExc
             /\ dl_pc' = IF failed THEN OnRaise ELSE "download"
    /\ UNCHANGED <<dl_cfg, dl_item, dl_final, dl_final0, dl_scratch, dl_scratch0>>
    /\ UNCHANGED notDownload

\* _download: every path through it ends in an exception
DlDownload ==
    /\ dl_pc = "download"
    /\ dl_exc' = _download(dl_cfg, dl_item, dl_final # "none")
    /\ dl_pc' = OnRaise
    /\ UNCHANGED <<dl_cfg, dl_item, dl_final, dl_final0, dl_scratch, dl_scratch0,
                   dl_effects>>
    /\ UNCHANGED notDownload

\* finally: if not self.skip_cleanup: self._cleanup_temp(item.uuid_)
DlFinally ==
    /\ dl_pc = "finally"
    /\ IF ~dl_cfg.skip_cleanup /\ dl_scratch # "absent"
          THEN /\ dl_scratch' = "absent"
               /\ dl_effects' = dl_effects \cup {"rmtree"}
          ELSE UNCHANGED <<dl_scratch, dl_effects>>
    /\ dl_pc' = "done"
    /\ UNCHANGED <<dl_cfg, dl_item, dl_exc, dl_final, dl_final0, dl_scratch0>>
    /\ UNCHANGED notDownload

DlFlags ==
    [synced_lyrics_only : BOOLEAN, overwrite : BOOLEAN,
     skip_processing : BOOLEAN, skip_cleanup : BOOLEAN,
     save_cover_file : BOOLEAN, no_synced_lyrics_file : BOOLEAN]

DlConfig(flags, download_mode, audio_remux_mode, video_remux_mode, quality, tools) ==
    [synced_lyrics_only |-> flags.synced_lyrics_only,
     overwrite |-> flags.overwrite,
     skip_processing |-> flags.skip_processing,
     skip_cleanup |-> flags.skip_cleanup,
     save_cover_file |-> flags.save_cover_file,
     no_synced_lyrics_file |-> flags.no_synced_lyrics_file,
     download_mode |-> download_mode,
     audio_remux_mode |-> audio_remux_mode,
     video_remux_mode |-> video_remux_mode,
     audio_quality |-> quality,
     tools |-> tools]

DlItem(media_type, decryption_key, file_format) ==
    [media_type |-> media_type, decryption_key |-> decryption_key,
     file_format |-> file_format]

Missing(S) == { m \in SUBSET S : Cardinality(m) <= MaxMissing }

\* what is found at the item's scratch directory and at its final path
ScratchStates == {"absent", "files"}
FinalStates == {"none", "old"}

\* an audio item with the audio backends, or a video item with the video
\* backend; the settings of the other kind keep their defaults.  An audio
\* item is only built under an AAC quality: get_stream_info rejects the
\* others before it looks at the item (interface/audio.py 26-33).
InitDownload ==
    /\ \E flags \in DlFlags :
          \/ \E t \in AudioMediaTypes, dm \in AudioDownloadMode,
                rm \in AudioRemuxMode, q \in AAC_AUDIO_QUALITIES,
                m \in Missing(AudioTools) :
                /\ dl_cfg = DlConfig(flags, dm, rm, "ffmpeg", q, Tools \ m)
                /\ dl_item = DlItem(t, TRUE, "mp4")
          \/ \E t \in VideoMediaTypes, rm \in VideoRemuxMode, key \in BOOLEAN,
                f \in {"mp4", "webm"}, m \in Missing(VideoTools) :
                /\ dl_cfg = DlConfig(flags, "ytdlp", "ffmpeg", rm, "aac-medium", Tools \ m)
                /\ dl_item = DlItem(t, key, f)
    /\ dl_pc = "initial"
    /\ dl_exc = NoExc
    /\ dl_final0 \in FinalStates
    /\ dl_final = dl_final0
    /\ dl_scratch0 \in ScratchStates
    /\ dl_scratch = dl_scratch0
    /\ dl_effects = {}

IdleDownload ==
    /\ dl_cfg = DlConfig([synced_lyrics_only |-> FALSE, overwrite |-> FALSE,
                          skip_processing |-> FALSE, skip_cleanup |-> FALSE,
                          save_cover_file |-> FALSE, no_synced_lyrics_file |-> FALSE],
                         "ytdlp", "ffmpeg", "ffmpeg", "aac-medium", Tools)
    /\ dl_item = DlItem("song", TRUE, "mp4")
    /\ dl_pc = "done"
    /\ dl_exc = NoExc
    /\ dl_final0 = "none"
    /\ dl_final = "none"
    /\ dl_scratch0 = "absent"
    /\ dl_scratch = "absent"
    /\ dl_effects = {}

\* ------------------------------------------------------------------------
\* Staging (src/votify/downloader/audio.py, video.py) and the external
\* tools (SpotifyBaseDownloader.run_async_command)
\* ------------------------------------------------------------------------
ExitCodes == 0..MaxExit

CmdExc(name, tool, code) == [name |-> name, tool |-> tool, code |-> code]
NoCmdExc == CmdExc(None, None, 0)

\* a run_async_command that does not look at the return code
run_async_command_unchecked(tool, code) ==
    IF tool \notin st_tools THEN CmdExc("TypeError", tool, 0)
    ELSE NoCmdExc

\* run_async_command(tool_full_path, ...): the process is created, awaited,
\* and a return code other than 0 raises Exception('"<tool>" exited with
\* code <returncode>'); a tool that shutil.which did not find has the path
\* None, which create_subprocess_exec rejects with TypeError
run_async_command(tool, code) ==
    IF tool \notin st_tools THEN CmdExc("TypeError", tool, 0)
    ELSE IF code # 0 THEN CmdExc("Exception", tool, code)
    ELSE NoCmdExc

\* one awaited tool: it is recorded when its process ran, with the files its
\* command line names as input and as output, and the method goes on at
\* nextpc unless the call raised
Run(tool, inputs, output, nextpc) ==
    \E code \in ExitCodes :
        LET e == run_async_command(tool, code) IN
        /\ st_ran' = IF tool \in st_tools
                        THEN Append(st_ran, [tool |-> tool, code |-> code,
                                             inputs |-> inputs, output |-> output])
                        ELSE st_ran
        /\ st_exc' = e
        /\ st_pc' = IF e = NoCmdExc THEN nextpc ELSE "done"

\* the decrypt tool of a track file: Shaka Packager for .webm, else mp4decrypt
decrypt_tool(ext) == IF ext = ".webm" THEN "Shaka Packager" ELSE "mp4decrypt"

\* audio, staged_path ends with .ogg: _decrypt_playplay, in process
StPlayplay ==
    /\ st_pc = "stage"
    /\ st_call.kind = "audio"
    /\ st_call.staged_ext = ".ogg"
    /\ \E header \in BOOLEAN :
          st_exc' = IF header THEN NoCmdExc ELSE CmdExc("ValueError", None, 0)
    /\ st_pc' = "done"
    /\ UNCHANGED <<st_call, st_tools, st_ran>>
    /\ UNCHANGED notStage

\* audio, remux mode ffmpeg: _ffmpeg_remux
StAudioFfmpeg ==
    /\ st_pc = "stage"
    /\ st_call.kind = "audio"
    /\ st_call.staged_ext # ".ogg"
    /\ st_call.remux_mode = "ffmpeg"
    /\ Run("ffmpeg", {"encrypted"}, "staged", "done")
    /\ UNCHANGED <<st_call, st_tools>>
    /\ UNCHANGED notStage

\* audio, the other remux modes: _decrypt_mp4decrypt
StAudioMp4decrypt ==
    /\ st_pc = "stage"
    /\ st_call.kind = "audio"
    /\ st_call.staged_ext # ".ogg"
    /\ st_call.remux_mode # "ffmpeg"
    /\ Run("mp4decrypt", {"encrypted"}, "decrypted",
           IF st_call.remux_mode = "mp4box" THEN "mp4box" ELSE "done")
    /\ UNCHANGED <<st_call, st_tools>>
    /\ UNCHANGED notStage

\* audio, remux mode mp4box: _mp4box_remux after the decryption
StAudioMp4box ==
    /\ st_pc = "mp4box"
    /\ Run("MP4Box", {"decrypted"}, "staged", "done")
    /\ UNCHANGED <<st_call, st_tools>>
    /\ UNCHANGED notStage

\* video with a key: the video track is decrypted
StVideoDecryptVideo ==
    /\ st_pc = "stage"
    /\ st_call.kind = "video"
    /\ st_call.decryption_key
    /\ Run(decrypt_tool(st_call.video_ext), {"encrypted_video"}, "decrypted_video",
           "decrypt_audio")
    /\ UNCHANGED <<st_call, st_tools>>
    /\ UNCHANGED notStage

\* video with a key: the audio track is decrypted
StVideoDecryptAudio ==
    /\ st_pc = "decrypt_audio"
    /\ Run(decrypt_tool(st_call.audio_ext), {"encrypted_audio"}, "decrypted_audio",
           "remux")
    /\ UNCHANGED <<st_call, st_tools>>
    /\ UNCHANGED notStage

\* video: _ffmpeg_remux or _mp4box_remux
StVideoRemux ==
    /\ \/ st_pc = "remux"
       \/ st_pc = "stage" /\ st_call.kind = "video" /\ ~st_call.decryption_key
    /\ Run(IF st_call.remux_mode = "ffmpeg" THEN "ffmpeg" ELSE "MP4Box",
           {"decrypted_video", "decrypted_audio"}, "staged", "done")
    /\ UNCHANGED <<st_call, st_tools>>
    /\ UNCHANGED notStage

StCall(kind, remux_mode, staged_ext, decryption_key, video_ext, audio_ext) ==
    [kind |-> kind, remux_mode |-> remux_mode, staged_ext |-> staged_ext,
     decryption_key |-> decryption_key, video_ext |-> video_ext,
     audio_ext |-> audio_ext]

InitStage ==
    /\ \/ \E rm \in AudioRemuxMode, ext \in {".ogg", ".m4a"} :
             st_call = StCall("audio", rm, ext, TRUE, ".mp4", ".mp4")
       \/ \E rm \in VideoRemuxMode, key \in BOOLEAN,
             v \in {".mp4", ".webm"}, a \in {".mp4", ".webm"} :
             st_call = StCall("video", rm, ".mp4", key, v, a)
    /\ \E m \in Missing(Tools) : st_tools = Tools \ m
    /\ st_pc = "stage"
    /\ st_ran = <<>>
    /\ st_exc = NoCmdExc

IdleStage ==
    /\ st_call = StCall("audio", "ffmpeg", ".m4a", TRUE, ".mp4", ".mp4")
    /\ st_tools = Tools
    /\ st_pc = "done"
    /\ st_ran = <<>>
    /\ st_exc = NoCmdExc

\* ------------------------------------------------------------------------
\* The playlist file (SpotifyBaseDownloader.update_playlist_file)
\* ------------------------------------------------------------------------
\* A path is the sequence of its parts. A file is a sequence of characters,
\* of which only the line terminator matters: every other run of characters
\* is one token, the posix form of a relative path.
output_path == <<"out">>
PlaylistParents == {<<"out">>, <<"out", "Playlists">>}
FinalPaths == {<<"out", "A", "t.m4a">>, <<"out", "B", "u.m4a">>}
NL == <<"\n">>

RECURSIVE Repeat(_, _)
Repeat(x, n) == IF n <= 0 THEN <<>> ELSE <<x>> \o Repeat(x, n - 1)

\* Path("../" * (len(parent.parts) - len(output.parts)), *final.parts[len(output.parts):])
final_path_relative(parent, final_path) ==
    Repeat("..", Len(parent) - Len(output_path))
        \o SubSeq(final_path, Len(output_path) + 1, Len(final_path))

\* file.readlines(): the lines with their terminators, the last one without
\* if the file does not end with one
RECURSIVE readlines_from(_, _, _)
readlines_from(f, i, line) ==
    IF i > Len(f) THEN (IF line = <<>> THEN <<>> ELSE <<line>>)
    ELSE IF f[i] = NL THEN <<Append(line, NL)>> \o readlines_from(f, i + 1, <<>>)
    ELSE readlines_from(f, i + 1, Append(line, f[i]))

readlines(f) == readlines_from(f, 1, <<>>)

\* file.writelines(lines)
RECURSIVE writelines(_)
writelines(lines) ==
    IF lines = <<>> THEN <<>> ELSE Head(lines) \o writelines(Tail(lines))

\* playlist_file_lines.extend("\n" for _ in range(playlist_track - len(...)))
extend(lines, playlist_track) ==
    IF Len(lines) < playlist_track
        THEN lines \o Repeat(<<NL>>, playlist_track - Len(lines))
        ELSE lines

\* playlist_file_lines[playlist_track - 1] = ...: a list index below 0
\* counts from the end, and an index outside the list is an IndexError
list_index(lines, playlist_track) ==
    IF playlist_track >= 1 THEN playlist_track ELSE Len(lines) + playlist_track

\* an update that appends the line instead of assigning it
set_line_append(lines, i, line) == Append(lines, line)

set_line(lines, i, line) == [lines EXCEPT ![i] = line]

PlCall(playlist_track, final_path) ==
    [playlist_track |-> playlist_track, final_path |-> final_path]

UpdatePlaylistFile ==
    \E playlist_track \in 0..MaxTrack, final_path \in FinalPaths :
        LET lines == extend(IF pl_exists THEN readlines(pl_file) ELSE <<>>,
                            playlist_track)
            i == list_index(lines, playlist_track)
            line == <<final_path_relative(pl_parent, final_path), NL>>
        IN  /\ pl_call' = PlCall(playlist_track, final_path)
            /\ pl_prev' = pl_file
            /\ IF i \in 1..Len(lines)
                  THEN /\ pl_file' = writelines(set_line(lines, i, line))
                       /\ pl_exists' = TRUE
                       /\ pl_exc' = None
                  ELSE /\ pl_exc' = "IndexError"
                       /\ UNCHANGED <<pl_file, pl_exists>>
            /\ UNCHANGED pl_parent
            /\ UNCHANGED notPlaylist

InitPlaylist ==
    /\ pl_parent \in PlaylistParents
    /\ pl_exists = FALSE
    /\ pl_file = <<>>
    /\ pl_prev = <<>>
    /\ pl_call = PlCall(0, <<>>)
    /\ pl_exc = None

IdlePlaylist ==
    /\ pl_parent = output_path
    /\ pl_exists = FALSE
    /\ pl_file = <<>>
    /\ pl_prev = <<>>
    /\ pl_call = PlCall(0, <<>>)
    /\ pl_exc = None

\* ------------------------------------------------------------------------
\* Final processing (SpotifyDownloader._final_processing)
\* ------------------------------------------------------------------------
\* the parameters of update_playlist_file after self
update_playlist_file_params == <<"playlist_file_path", "final_path", "playlist_track">>

\* the arguments _final_processing passes to it
update_playlist_file_args == <<"item.playlist_file_path", "item.media.playlist_tags">>

\* a call binds its positional arguments to the parameters; a parameter
\* without default that gets none is a TypeError
call_binds(params, args) == Len(args) = Len(params)

FpItem(staged_path, final_path, playlist_file_path, track) ==
    [staged_path |-> staged_path, final_path |-> final_path,
     playlist_file_path |-> playlist_file_path, track |-> track]

\* the guard of the move: item.staged_path and item.final_path and
\* Path(item.staged_path).exists()
staged_file_ready(item) == item.staged_path = "exists" /\ item.final_path

\* skip_processing, or nothing staged: the function returns
FpReturn ==
    /\ fp_pc = "start"
    /\ fp_cfg.skip_processing \/ ~staged_file_ready(fp_item)
    /\ fp_pc' = "done"
    /\ UNCHANGED <<fp_cfg, fp_item, fp_exc, fp_media, fp_file>>
    /\ UNCHANGED notFinal

\* _move_to_final_path: shutil.move(staged_path, final_path)
FpMoveToFinalPath ==
    /\ fp_pc = "start"
    /\ ~fp_cfg.skip_processing
    /\ staged_file_ready(fp_item)
    /\ fp_media' = "final"
    /\ fp_pc' = IF fp_item.playlist_file_path /\ fp_cfg.save_playlist_file
                   THEN "update_playlist_file" ELSE "done"
    /\ UNCHANGED <<fp_cfg, fp_item, fp_exc, fp_file>>
    /\ UNCHANGED notFinal

\* self.base.update_playlist_file(item.playlist_file_path,
\*                                item.media.playlist_tags)
FpUpdatePlaylistFile ==
    /\ fp_pc = "update_playlist_file"
    /\ IF call_binds(update_playlist_file_params, update_playlist_file_args)
          THEN LET lines == extend(readlines(fp_file), fp_item.track)
                   i == list_index(lines, fp_item.track)
                   line == <<final_path_relative(<<"out", "Playlists">>,
                                                 <<"out", "A", "t.m4a">>), NL>>
               IN  IF i \in 1..Len(lines)
                      THEN /\ fp_file' = writelines(set_line(lines, i, line))
                           /\ fp_exc' = None
                      ELSE /\ fp_exc' = "IndexError"
                           /\ UNCHANGED fp_file
          ELSE /\ fp_exc' = "TypeError"
               /\ UNCHANGED fp_file
    /\ fp_pc' = "done"
    /\ UNCHANGED <<fp_cfg, fp_item, fp_media>>
    /\ UNCHANGED notFinal

FpCfg(skip_processing, save_playlist_file) ==
    [skip_processing |-> skip_processing, save_playlist_file |-> save_playlist_file]

InitFinal ==
    /\ \E sk \in BOOLEAN, sv \in BOOLEAN : fp_cfg = FpCfg(sk, sv)
    /\ \E st \in {"none", "missing", "exists"}, fin \in BOOLEAN,
          pf \in BOOLEAN, tr \in 0..MaxTrack :
          fp_item = FpItem(st, fin, pf, tr)
    /\ fp_pc = "start"
    /\ fp_exc = None
    /\ fp_media = IF fp_item.staged_path = "exists" THEN "staged" ELSE "nowhere"
    /\ fp_file = <<>>

IdleFinal ==
    /\ fp_cfg = FpCfg(TRUE, FALSE)
    /\ fp_item = FpItem("none", FALSE, FALSE, 0)
    /\ fp_pc = "done"
    /\ fp_exc = None
    /\ fp_media = "nowhere"
    /\ fp_file = <<>>

\* ------------------------------------------------------------------------
\* Path sanitization (SpotifyBaseDownloader.sanitize_string)
\* ------------------------------------------------------------------------
\* A string is the sequence of its characters. The illegal characters and
\* their replacement are constants of downloader/constants.py; one illegal
\* character and a one-character replacement stand for them.
NameChars == {"a", " ", "/", "."}
ILLEGAL_CHARS == {"/"}
ILLEGAL_CHAR_REPLACEMENT == "_"
Whitespace == {" "}

\* truncate = None, and file_ext = None
NoTruncate == -1
NoExt == <<>>

FileExtensions ==
    { <<".", "m", "4", "a">>, <<".", "o", "g", "g">>, <<".", "m", "p", "4">>,
      <<".", "m", "3", "u", "8">> }

RECURSIVE Strings(_)
Strings(n) ==
    IF n = 0 THEN {<<>>}
    ELSE LET shorter == Strings(n - 1) IN
         shorter \cup {Append(x, c) : x \in {y \in shorter : Len(y) = n - 1},
                                      c \in NameChars}

\* self.truncate = None if self.truncate < 4 else self.truncate
initialize_truncate(truncate) ==
    IF truncate = NoTruncate THEN NoTruncate
    ELSE IF truncate < 4 THEN NoTruncate
    ELSE truncate

\* re.sub(ILLEGAL_CHARS_RE, ILLEGAL_CHAR_REPLACEMENT, dirty_string)
re_sub(x) ==
    [i \in 1..Len(x) |-> IF x[i] \in ILLEGAL_CHARS THEN ILLEGAL_CHAR_REPLACEMENT
                                                   ELSE x[i]]

\* x[:stop]: a stop below 0 counts from the end of the string
slice_to(x, stop) ==
    LET n == IF stop < 0 THEN Len(x) + stop ELSE stop IN
    IF n <= 0 THEN <<>> ELSE IF n >= Len(x) THEN x ELSE SubSeq(x, 1, n)

endswith(x, suffix) ==
    /\ Len(x) >= Len(suffix)
    /\ SubSeq(x, Len(x) - Len(suffix) + 1, Len(x)) = suffix

RECURSIVE lstrip(_)
lstrip(x) ==
    IF x # <<>> /\ Head(x) \in Whitespace THEN lstrip(Tail(x)) ELSE x

RECURSIVE rstrip(_)
rstrip(x) ==
    IF x # <<>> /\ x[Len(x)] \in Whitespace
        THEN rstrip(SubSeq(x, 1, Len(x) - 1)) ELSE x

strip(x) == rstrip(lstrip(x))

sanitize_string(truncate, dirty_string, file_ext) ==
    LET sanitized_string == re_sub(dirty_string) IN
    IF file_ext = NoExt
        THEN LET cut == IF truncate = NoTruncate THEN sanitized_string
                        ELSE slice_to(sanitized_string, truncate)
             IN  strip(IF endswith(cut, <<".">>)
                          THEN Append(slice_to(cut, -1), ILLEGAL_CHAR_REPLACEMENT)
                          ELSE cut)
        ELSE strip((IF truncate = NoTruncate THEN sanitized_string
                    ELSE slice_to(sanitized_string, truncate - Len(file_ext)))
                   \o file_ext)

\* the constructor: _initialize -> _initialize_truncate
SnInitialize ==
    /\ sn_pc = "new"
    /\ sn_truncate' = initialize_truncate(sn_truncate)
    /\ sn_pc' = "ready"
    /\ UNCHANGED <<sn_string, sn_ext, sn_result>>
    /\ UNCHANGED notSanitize

SnSanitizeString ==
    /\ sn_pc = "ready"
    /\ sn_result' = sanitize_string(sn_truncate, sn_string, sn_ext)
    /\ sn_pc' = "done"
    /\ UNCHANGED <<sn_truncate, sn_string, sn_ext>>
    /\ UNCHANGED notSanitize

InitSanitize ==
    /\ sn_truncate \in {NoTruncate} \cup 3..MaxTruncate
    /\ sn_string \in Strings(MaxName)
    /\ sn_ext \in {NoExt} \cup FileExtensions
    /\ sn_pc = "new"
    /\ sn_result = <<>>

IdleSanitize ==
    /\ sn_truncate = NoTruncate
    /\ sn_string = <<>>
    /\ sn_ext = NoExt
    /\ sn_pc = "done"
    /\ sn_result = <<>>

\* ------------------------------------------------------------------------
\* Disc and track totals (SpotifySongInterface._parse_disc_info)
\* ------------------------------------------------------------------------
\* The sibling list is the sequence of its trackNumber values; the track
\* looked for is given by its position in the list, 0 when its uri is not
\* in the list (current_track_index stays None).
RECURSIVE max_from(_, _, _)
max_from(xs, i, best) ==
    IF i > Len(xs) THEN best
    ELSE max_from(xs, i + 1, IF xs[i] > best THEN xs[i] ELSE best)

\* max(track_numbers)
max(xs) == max_from(xs, 2, xs[1])

\* range(1, current_track_index + 1), as positions counted from 1
disc_range(position) == 2..position

\* a disc boundary at every step that does not increase
disc_boundary_le(track_numbers, i) == track_numbers[i] <= track_numbers[i - 1]

\* if track_numbers[i] < track_numbers[i - 1]: disc += 1
disc_boundary(track_numbers, i) == track_numbers[i] < track_numbers[i - 1]

RECURSIVE disc_loop(_, _, _, _)
disc_loop(track_numbers, i, position, disc) ==
    IF i \notin disc_range(position) THEN disc
    ELSE disc_loop(track_numbers, i + 1, position,
                   IF disc_boundary(track_numbers, i) THEN disc + 1 ELSE disc)

DiOut(exc, disc, disc_total, track_total) ==
    [exc |-> exc, disc |-> disc, disc_total |-> disc_total,
     track_total |-> track_total]

_parse_disc_info(track_numbers, position) ==
    IF track_numbers = <<>> THEN DiOut("ValueError", 0, 0, 0)
    ELSE LET track_total == max(track_numbers)
             disc_total == Len(track_numbers) \div track_total
         IN  IF position = 0 THEN DiOut("TypeError", 0, 0, 0)
             ELSE DiOut(None, disc_loop(track_numbers, 2, position, 1),
                        disc_total, track_total)

DiParseDiscInfo ==
    /\ di_pc = "call"
    /\ di_out' = _parse_disc_info(di_tracks, di_position)
    /\ di_pc' = "done"
    /\ UNCHANGED <<di_tracks, di_position>>
    /\ UNCHANGED notDisc

RECURSIVE TrackNumberLists(_)
TrackNumberLists(n) ==
    IF n = 0 THEN {<<>>}
    ELSE LET shorter == TrackNumberLists(n - 1) IN
         shorter \cup {Append(x, t) : x \in {y \in shorter : Len(y) = n - 1},
                                      t \in 1..MaxTrackNumber}

InitDisc ==
    /\ di_tracks \in TrackNumberLists(MaxSiblings)
    /\ di_position \in 0..Len(di_tracks)
    /\ di_pc = "call"
    /\ di_out = DiOut(None, 0, 0, 0)

IdleDisc ==
    /\ di_tracks = <<>>
    /\ di_position = 0
    /\ di_pc = "done"
    /\ di_out = DiOut(None, 0, 0, 0)

\* ------------------------------------------------------------------------
\* The caller's loop (src/votify/cli/cli.py, main) with
\* SpotifyDownloader.get_download_item
\* ------------------------------------------------------------------------
\* A URL is an album or a show URL whose items the resolver takes one by
\* one.  What the API serves for an item decides how its resolution ends:
\*   media                    a playable video with a Widevine header: a
\*                            music video of an album, a video episode of
\*                            a show
\*   MediaUnstreamable        playability.playable is false (an item of
\*                            another __typename takes the same path)
\*   AudioQualityUnavailable  a playable audio item
Fates == {"media", "MediaUnstreamable", "AudioQualityUnavailable"}

CliMediaTypes == {"album", "show"}

FateItem(media_type, fate) ==
    LET typename == IF media_type = "album" THEN "Track" ELSE "Episode"
    IN  CASE fate = "media" -> Item(typename, TRUE, "video", TRUE)
          [] fate = "MediaUnstreamable" -> Item(typename, FALSE, "none", FALSE)
          [] OTHER -> Item(typename, TRUE, "audio", TRUE)

CliUrl(valid, media_type, items) ==
    [valid |-> valid, media_type |-> media_type, items |-> items]

NoItem == [url |-> 0, item |-> 0]

\* what __anext__ gave the loop for a result of the resolver: "item", or the
\* exception raised
Got(this, got) == [url |-> this.url, item |-> this.item, got |-> got]
CliItem(u, i) == [url |-> u, item |-> i]

StopAsyncIteration == Raise("StopAsyncIteration", FALSE)

\* one resumption of get_media_by_url(url), pos results taken so far:
\* parse_url_info, then _get_album_media or _get_show_media
get_media_by_url(nodrm, u, pos) ==
    IF ~u.valid THEN RaiseNew(VotifyUrlParseException)
    ELSE IF u.media_type = "album" /\ nodrm
        THEN IF pos = 0 THEN ReturnNew(0, VotifyDrmDisabledException)
                        ELSE StopAsyncIteration
    ELSE IF pos >= Len(u.items) THEN StopAsyncIteration
    ELSE IF u.media_type = "album"
        THEN get_track_media(FALSE, pos + 1,
                             FateItem(u.media_type, u.items[pos + 1]), "ok", "ok")
    ELSE get_episode_media(nodrm, pos + 1,
                           FateItem(u.media_type, u.items[pos + 1]), "ok", "ok")

\* media.tags.media_type: the song and the episode parse_tags set it;
\* SpotifyMusicVideoInterface.parse_tags leaves the default, None
tags_media_type(media) ==
    CASE media.what = "song" -> "SONG"
      [] media.what = "podcast" -> "PODCAST"
      [] media.what = "podcast_video" -> "PODCAST_VIDEO"
      [] OTHER -> None

\* one resumption of get_download_item(url), pos results of the resolver
\* taken so far: `media.tags.media_type` of what the resolver yields (an
\* exception object has no attribute tags); audio.parse_item reads
\* stream_info.audio_track.file_format, which StreamInfo's tracks do not
\* have; a media_type that is in neither set yields nothing and the loop
\* takes the next result.  pos is the number of results taken afterwards.
RECURSIVE get_download_item(_, _, _)
get_download_item(nodrm, u, pos) ==
    LET r == get_media_by_url(nodrm, u, pos)
        At(x) == [ret |-> x.ret, val |-> x.val, exc |-> x.exc, pos |-> pos + 1]
    IN  IF r.ret = "raise" THEN At(r)
        ELSE IF r.val.tag # "media" THEN At(Raise("AttributeError", FALSE))
        ELSE IF tags_media_type(r.val) \in {"SONG", "PODCAST"}
            THEN At(Raise("AttributeError", FALSE))
        ELSE IF tags_media_type(r.val) \in {"MUSIC_VIDEO", "PODCAST_VIDEO"}
            THEN At(r)
        ELSE get_download_item(nodrm, u, pos + 1)

\* except VotifyMediaException: the classes that derive from it
VotifyMediaExceptionClasses == {"VotifyMediaException"}

\* except VotifyDownloaderException: the classes that derive from it
VotifyDownloaderExceptionClasses ==
    {"VotifyMediaFileExists", "VotifyDependencyNotFound", "VotifySyncedLyricsOnly"}

\* SpotifyDownloader(base=..., audio=..., video=...): every flag keeps its
\* default
CliDlConfig ==
    DlConfig([synced_lyrics_only |-> FALSE, overwrite |-> FALSE,
              skip_processing |-> FALSE, skip_cleanup |-> FALSE,
              save_cover_file |-> FALSE, no_synced_lyrics_file |-> FALSE],
             "ytdlp", "ffmpeg", "ffmpeg", "aac-medium", Tools)

\* a loop that starts the download and goes on without waiting for it
download_not_awaited == FALSE

\* await downloader.download(item)
download_awaited == TRUE

\* a loop that leaves the URL when a download fails
after_download_breaks == "break"

\* the handlers of the second try statement fall through to the next
\* iteration of `while True`
after_download == "anext"

\* `break`: the next URL, or the end of the run
Break ==
    /\ cl_closed' = FALSE
    /\ cl_pos' = 0
    /\ IF cl_url < Len(cl_urls)
          THEN cl_url' = cl_url + 1 /\ cl_pc' = "anext"
          ELSE cl_url' = cl_url /\ cl_pc' = "finished"

\* item = await download_queue.__anext__() with its handlers
CliAnext ==
    /\ cl_pc = "anext"
    /\ LET u == cl_urls[cl_url]
           r == IF cl_closed
                   THEN [ret |-> "raise", val |-> None,
                         exc |-> "StopAsyncIteration", pos |-> cl_pos]
                   ELSE get_download_item(cl_no_drm, u, cl_pos)
           this == CliItem(cl_url, r.pos)
       IN  IF r.ret = "return"
              THEN /\ cl_pc' = "download"
                   /\ cl_pos' = r.pos
                   /\ cl_got' = cl_got \cup {Got(this, "item")}
                   /\ cl_stepped' = cl_stepped \cup {this}
                   /\ UNCHANGED <<cl_url, cl_closed, cl_skips, cl_errors,
                                  cl_error_count>>
           ELSE IF r.exc \in {"StopAsyncIteration", "UrlParse"}
              THEN /\ Break
                   /\ UNCHANGED <<cl_stepped, cl_skips, cl_errors, cl_error_count,
                                  cl_got>>
           ELSE /\ cl_closed' = TRUE
                /\ cl_got' = cl_got \cup {Got(this, r.exc)}
                /\ cl_pos' = r.pos
                /\ cl_stepped' = cl_stepped \cup {this}
                /\ IF r.exc \in VotifyMediaExceptionClasses
                      THEN /\ cl_skips' = cl_skips \cup {this}
                           /\ UNCHANGED <<cl_errors, cl_error_count>>
                      ELSE /\ cl_errors' = cl_errors \cup {this}
                           /\ cl_error_count' = cl_error_count + 1
                           /\ UNCHANGED cl_skips
                /\ UNCHANGED <<cl_url, cl_pc>>
    /\ UNCHANGED <<cl_no_drm, cl_urls, cl_inflight, cl_downloads>>
    /\ UNCHANGED notCli

\* downloader.download(item) is called
CliDownloadStart ==
    /\ cl_pc = "download"
    /\ cl_inflight = NoItem
    /\ cl_inflight' = CliItem(cl_url, cl_pos)
    /\ cl_downloads' = Append(cl_downloads, CliItem(cl_url, cl_pos))
    /\ cl_pc' = IF download_awaited THEN "await" ELSE after_download
    /\ UNCHANGED <<cl_no_drm, cl_urls, cl_url, cl_pos, cl_closed, cl_stepped,
                   cl_skips, cl_errors, cl_error_count, cl_got>>
    /\ UNCHANGED notCli

\* download() has run its finally clause and raised; the handlers of the
\* second try statement
CliDownloadEnd ==
    /\ cl_inflight # NoItem
    /\ \E exists \in BOOLEAN :
          LET e == _download(CliDlConfig, DlItem("podcast_video", TRUE, "mp4"), exists)
          IN  IF e.name \in VotifyDownloaderExceptionClasses
                 THEN /\ cl_skips' = cl_skips \cup {cl_inflight}
                      /\ UNCHANGED <<cl_errors, cl_error_count>>
                 ELSE /\ cl_errors' = cl_errors \cup {cl_inflight}
                      /\ cl_error_count' = cl_error_count + 1
                      /\ UNCHANGED cl_skips
    /\ cl_inflight' = NoItem
    /\ IF cl_pc # "await"
          THEN UNCHANGED <<cl_pc, cl_url, cl_pos, cl_closed>>
          ELSE IF after_download = "anext"
          THEN cl_pc' = "anext" /\ UNCHANGED <<cl_url, cl_pos, cl_closed>>
          ELSE Break
    /\ UNCHANGED <<cl_no_drm, cl_urls, cl_stepped, cl_downloads, cl_got>>
    /\ UNCHANGED notCli

CliUrls ==
    {CliUrl(FALSE, "album", <<>>)}
        \cup {CliUrl(TRUE, t, s) : t \in CliMediaTypes, s \in SeqsUpTo(Fates, MaxUrlItems)}

InitCli ==
    /\ cl_no_drm \in BOOLEAN
    /\ cl_urls \in SeqsUpTo(CliUrls, MaxUrls)
    /\ Len(cl_urls) >= 1
    /\ cl_no_drm =>
          \A u \in 1..Len(cl_urls) :
              \A i \in 1..Len(cl_urls[u].items) : cl_urls[u].items[i] = "media"
    /\ cl_url = 1
    /\ cl_pos = 0
    /\ cl_closed = FALSE
    /\ cl_pc = "anext"
    /\ cl_inflight = NoItem
    /\ cl_downloads = <<>>
    /\ cl_stepped = {}
    /\ cl_skips = {}
    /\ cl_errors = {}
    /\ cl_error_count = 0
    /\ cl_got = {}

IdleCli ==
    /\ cl_no_drm = FALSE
    /\ cl_urls = <<>>
    /\ cl_url = 1
    /\ cl_pos = 0
    /\ cl_closed = FALSE
    /\ cl_pc = "finished"
    /\ cl_inflight = NoItem
    /\ cl_downloads = <<>>
    /\ cl_stepped = {}
    /\ cl_skips = {}
    /\ cl_errors = {}
    /\ cl_error_count = 0
    /\ cl_got = {}

\* ------------------------------------------------------------------------
\* The pagination loops (src/votify/interface/base.py 36-63,
\* src/votify/interface/interface.py 187-195, 269-277, 330-340)
\* ------------------------------------------------------------------------
\* album, show, playlist and artist releases hold one list; the artist's
\* videos hold two lists (related, unmapped) that one request pages together
Enumerations == {"album", "show", "playlist", "artist_albums", "artist_videos"}

Lists(kind) == IF kind = "artist_videos" THEN {1, 2} ELSE {1}

\* offset=len(album_items); for the videos
\* offset = max(len(related_items), len(unmapped_items))
page_offset(kind, lens) ==
    IF kind = "artist_videos" THEN max(lens) ELSE lens[1]

\* the lists that the loop condition finds incomplete
incomplete(kind, lens, totals) == {i \in Lists(kind) : lens[i] < totals[i]}

\* while len(items) < totalCount (for any of the lists)
more_pages(kind, lens, totals) == incomplete(kind, lens, totals) # {}

\* the numbers of items a response can hold for a list of `total` items
\* requested at `offset`
ResponseLens(total, offset) ==
    IF offset >= total THEN {0} ELSE 0..Min(PageSize, total - offset)

\* requests after which a loop that makes no progress is no longer followed
MaxPages == 2 * MaxTotal

PgRequest(offset, lens) == [offset |-> offset, lens |-> lens]

\* the first request of the enumeration: items and totalCount of each list
PgFirstPage ==
    /\ pg_pc = "first"
    /\ \E n \in [1..2 -> 0..PageSize] :
          /\ \A i \in 1..2 : n[i] \in ResponseLens(pg_totals[i], 0)
          /\ pg_lens' = <<n[1], n[2]>>
          /\ pg_empty' = \E i \in Lists(pg_kind) : pg_totals[i] > 0 /\ n[i] = 0
    /\ pg_pc' = "loop"
    /\ UNCHANGED <<pg_kind, pg_totals, pg_requests>>
    /\ UNCHANGED notPaging

\* one iteration of the while loop: the request at the offset, then extend
\* of every list that was incomplete
PgNextPage ==
    /\ pg_pc = "loop"
    /\ more_pages(pg_kind, pg_lens, pg_totals)
    /\ Len(pg_requests) < MaxPages
    /\ LET offset == page_offset(pg_kind, pg_lens)
           inc == incomplete(pg_kind, pg_lens, pg_totals)
       IN  /\ \E n \in [1..2 -> 0..PageSize] :
                 /\ \A i \in 1..2 : n[i] \in ResponseLens(pg_totals[i], offset)
                 /\ pg_lens' = [i \in 1..2 |->
                                   IF i \in inc THEN pg_lens[i] + n[i] ELSE pg_lens[i]]
                 /\ pg_empty' = (pg_empty \/ \E i \in inc : n[i] = 0)
           /\ pg_requests' = Append(pg_requests, PgRequest(offset, pg_lens))
    /\ UNCHANGED <<pg_kind, pg_totals, pg_pc>>
    /\ UNCHANGED notPaging

InitPaging ==
    /\ pg_kind \in Enumerations
    /\ pg_totals \in [1..2 -> 0..MaxTotal]
    /\ pg_kind # "artist_videos" => pg_totals[2] = 0
    /\ pg_lens = <<0, 0>>
    /\ pg_requests = <<>>
    /\ pg_empty = FALSE
    /\ pg_pc = "first"

IdlePaging ==
    /\ pg_kind = "album"
    /\ pg_totals = <<0, 0>>
    /\ pg_lens = <<0, 0>>
    /\ pg_requests = <<>>
    /\ pg_empty = FALSE
    /\ pg_pc = "loop"

\* ------------------------------------------------------------------------
\* SpotifyVideoInterface._generate_segment_urls
\* (src/votify/interface/video.py 136-159)
\* ------------------------------------------------------------------------
\* A URL is a template with its placeholders replaced; what identifies it is
\* the template and the values put in.
InitializationUrl(profile_id, file_type) ==
    [template |-> "initialization", profile_id |-> profile_id,
     file_type |-> file_type, segment_timestamp |-> None]

SegmentUrl(profile_id, file_type, timestamp) ==
    [template |-> "segment", profile_id |-> profile_id,
     file_type |-> file_type, segment_timestamp |-> timestamp]

\* a range that stops at the declared end time
range_stop_at_end(end_time_millis) == end_time_millis \div 1000

\* range(0, int(end_time_millis / 1000) + 5, segment_length): the stop value
range_stop(end_time_millis) == (end_time_millis \div 1000) + 5

\* segment_urls = [base_url + initialization_url]
SgInitialization ==
    /\ sg_pc = "start"
    /\ sg_urls' = <<InitializationUrl(sg_args.profile_id, sg_args.file_type)>>
    /\ sg_timestamp' = 0
    /\ sg_pc' = "loop"
    /\ UNCHANGED sg_args
    /\ UNCHANGED notSegments

\* one iteration of the for loop
SgSegment ==
    /\ sg_pc = "loop"
    /\ sg_timestamp < range_stop(sg_args.end_time_millis)
    /\ sg_urls' = Append(sg_urls, SegmentUrl(sg_args.profile_id, sg_args.file_type,
                                             sg_timestamp))
    /\ sg_timestamp' = sg_timestamp + sg_args.segment_length
    /\ UNCHANGED <<sg_args, sg_pc>>
    /\ UNCHANGED notSegments

\* the range is exhausted: return segment_urls
SgReturn ==
    /\ sg_pc = "loop"
    /\ ~(sg_timestamp < range_stop(sg_args.end_time_millis))
    /\ sg_pc' = "done"
    /\ UNCHANGED <<sg_args, sg_urls, sg_timestamp>>
    /\ UNCHANGED notSegments

ProfileIds == {0, 7}
FileTypes == {"mp4", "webm"}

InitSegments ==
    /\ sg_args \in [end_time_millis : 0..MaxEndMillis,
                    segment_length : 1..MaxSegmentLength,
                    profile_id : ProfileIds, file_type : FileTypes]
    /\ sg_urls = <<>>
    /\ sg_timestamp = 0
    /\ sg_pc = "start"

IdleSegments ==
    /\ sg_args = [end_time_millis |-> 0, segment_length |-> 1,
                  profile_id |-> 0, file_type |-> "mp4"]
    /\ sg_urls = <<>>
    /\ sg_timestamp = 0
    /\ sg_pc = "done"

\* ------------------------------------------------------------------------
\* Tagging (src/votify/downloader/base.py 286-374,
\* src/votify/interface/types.py 76-173)
\* ------------------------------------------------------------------------
\* The fields of MediaTags that stand for the ways a field is written: a
\* text field, the two halves of the disc pair (the track pair is written
\* alike) and the two free-form fields.  A field holds a value or None.
TagFields == {"title", "disc", "disc_total", "isrc", "label"}
TagValue == "v"

\* str(x)
str(x) == IF x = None THEN "'None'" ELSE x

\* {k: v for k, v in tags.items() if v[0] is not None}
without_none(tags) == [k \in {j \in DOMAIN tags : tags[j] # None} |-> tags[k]]

\* MediaTags(**{k: v for k, v in tags.__dict__.items()
\*              if v is not None and k not in exclude_tags})
filtered_tags(tags, exclude_tags) ==
    [f \in TagFields |-> IF tags[f] # None /\ f \notin exclude_tags
                            THEN tags[f] ELSE None]

\* MediaTags.as_vorbis_tags
as_vorbis_tags(self) ==
    without_none([k \in {"TITLE", "DISCNUMBER", "DISCTOTAL", "ISRC", "LABEL"} |->
        CASE k = "TITLE" -> self.title
          [] k = "DISCNUMBER" -> str(self.disc)
          [] k = "DISCTOTAL" -> str(self.disc_total)
          [] k = "ISRC" -> self.isrc
          [] OTHER -> self.label])

\* MediaTags.as_mp4_tags: the pair is dropped when both halves are 0; the
\* label is encoded whenever isrc is not None
as_mp4_tags(self) ==
    IF self.isrc # None /\ self.label = None
       THEN [exc |-> "AttributeError", tags |-> <<>>]
       ELSE [exc |-> None,
             tags |-> without_none([k \in {"nam", "disk", "ISRC", "LABEL"} |->
                CASE k = "nam" -> self.title
                  [] k = "disk" ->
                        IF self.disc = None /\ self.disc_total = None
                           THEN None
                           ELSE <<IF self.disc # None THEN self.disc ELSE "0",
                                  IF self.disc_total # None THEN self.disc_total
                                                            ELSE "0">>
                  [] k = "ISRC" -> self.isrc
                  [] OTHER -> IF self.isrc # None THEN self.label ELSE None])]

TgFile(exc, tags, cover) == [exc |-> exc, tags |-> tags, cover |-> cover]

\* apply_tags with _apply_ogg_tags / _apply_mp4_tags: the file's tags are
\* cleared and, unless "all" is excluded, updated with the container's
\* tags.  The Ogg picture is put into the dictionary after file.update() has
\* copied it, so it is not part of what is saved.
TgApplyTags ==
    /\ tg_pc = "apply"
    /\ LET exclude_tags == tg_exclude
           tags == filtered_tags(tg_tags, exclude_tags)
           skip_tagging == "all" \in exclude_tags
       IN  IF tg_ext = ".ogg"
              THEN tg_file' = TgFile(None,
                                     IF skip_tagging THEN <<>> ELSE as_vorbis_tags(tags),
                                     FALSE)
              ELSE IF ~skip_tagging /\ as_mp4_tags(tags).exc # None
              THEN tg_file' = TgFile(as_mp4_tags(tags).exc, <<>>, FALSE)
              ELSE tg_file' = TgFile(None,
                                     IF skip_tagging THEN <<>> ELSE as_mp4_tags(tags).tags,
                                     ~skip_tagging /\ "cover" \notin exclude_tags
                                         /\ tg_cover_bytes)
    /\ tg_pc' = "done"
    /\ UNCHANGED <<tg_tags, tg_exclude, tg_ext, tg_cover_bytes>>
    /\ UNCHANGED notTags

ExcludeTags ==
    {e \in SUBSET (TagFields \cup {"all", "cover"}) : Cardinality(e) <= MaxExcluded}

InitTags ==
    /\ tg_tags \in [TagFields -> {None, TagValue}]
    /\ tg_exclude \in ExcludeTags
    /\ tg_ext \in {".ogg", ".m4a"}
    /\ tg_cover_bytes \in BOOLEAN
    /\ tg_file = TgFile(None, <<>>, FALSE)
    /\ tg_pc = "apply"

IdleTags ==
    /\ tg_tags = [f \in TagFields |-> None]
    /\ tg_exclude = {}
    /\ tg_ext = ".m4a"
    /\ tg_cover_bytes = FALSE
    /\ tg_file = TgFile(None, <<>>, FALSE)
    /\ tg_pc = "done"

\* ------------------------------------------------------------------------
\* Cover images (src/votify/downloader/base.py 273-284, 286-301,
\* src/votify/downloader/downloader.py 153-165)
\* ------------------------------------------------------------------------
\* The objects get_cover_bytes is called on: _initial_processing calls it on
\* the base downloader, apply_tags on the audio or the video downloader that
\* runs the download.  The three are distinct objects (the audio and video
\* downloaders copy the base's __dict__), and none defines __eq__ or
\* __hash__.
CoverObjects == {"base", "audio", "video"}
CoverUrls == {"cover_a", "cover_b"}
CoverStatuses == {200, 404, 500}

CoverContent == "content"
HTTPStatusError == "HTTPStatusError"

\* the memo of @alru_cache() is keyed by the call's arguments (self, cover_url)
cover_key(self, cover_url) == <<self, cover_url>>

CoverResult(self, cover_url, value, exc, requested) ==
    [self |-> self, cover_url |-> cover_url, value |-> value, exc |-> exc,
     requested |-> requested]

\* get_cover_bytes under @alru_cache(): a memoized key is answered without
\* a request; otherwise one GET is made, 200 gives the content, 404 gives
\* None, both are memoized; any other status raises and nothing is
\* memoized.  (The runs here stay below the cache's 128 entries.)
get_cover_bytes(self, cover_url) ==
    /\ cv_calls < MaxCoverCalls
    /\ cv_calls' = cv_calls + 1
    /\ IF cover_key(self, cover_url) \in DOMAIN cv_cache
          THEN /\ cv_last' = CoverResult(self, cover_url,
                                         cv_cache[cover_key(self, cover_url)],
                                         None, FALSE)
               /\ UNCHANGED <<cv_cache, cv_requests>>
          ELSE /\ cv_requests' = [cv_requests EXCEPT ![cover_key(self, cover_url)] = @ + 1]
               /\ LET status_code == cv_status[cover_url]
                  IN  IF status_code \in {200, 404}
                         THEN LET value == IF status_code = 200
                                              THEN CoverContent ELSE None
                              IN  /\ cv_cache' =
                                        [k \in DOMAIN cv_cache
                                               \cup {cover_key(self, cover_url)} |->
                                            IF k = cover_key(self, cover_url)
                                               THEN value ELSE cv_cache[k]]
                                  /\ cv_last' = CoverResult(self, cover_url,
                                                            value, None, TRUE)
                         ELSE /\ cv_last' = CoverResult(self, cover_url, None,
                                                        HTTPStatusError, TRUE)
                              /\ UNCHANGED cv_cache
    /\ UNCHANGED cv_status
    /\ UNCHANGED notCover

\* _initial_processing: self.base.get_cover_bytes(item.media.cover_url)
CvInitialProcessing ==
    \E cover_url \in CoverUrls : get_cover_bytes("base", cover_url)

\* apply_tags: self.get_cover_bytes(cover_url), self being the audio or the
\* video downloader
CvApplyTags ==
    \E self \in {"audio", "video"}, cover_url \in CoverUrls :
        get_cover_bytes(self, cover_url)

NoCoverCall == CoverResult(None, None, None, None, FALSE)

InitCover ==
    /\ cv_status \in [CoverUrls -> CoverStatuses]
    /\ cv_cache = <<>>
    /\ cv_requests = [k \in CoverObjects \X CoverUrls |-> 0]
    /\ cv_calls = 0
    /\ cv_last = NoCoverCall

IdleCover ==
    /\ cv_status = [u \in CoverUrls |-> 200]
    /\ cv_cache = <<>>
    /\ cv_requests = [k \in CoverObjects \X CoverUrls |-> 0]
    /\ cv_calls = 0
    /\ cv_last = NoCoverCall

\* ------------------------------------------------------------------------
\* Scratch namespaces (src/votify/downloader/types.py 7-15,
\* src/votify/downloader/base.py 260-271,
\* src/votify/downloader/downloader.py 60-67, 148-151)
\* ------------------------------------------------------------------------
\* the values uuid.uuid4().hex[:8] can take, and the media of a run
UuidValues == {"u1", "u2", "u3"}
ScratchMediaIds == {"m1", "m2"}

\* @dataclass class DownloadItem: `uuid_: str = uuid.uuid4().hex[:8]` is a
\* class attribute default: the expression is evaluated once, when the class
\* body runs, and every DownloadItem(media=media) gets that value.
DownloadItem(media_id, default_uuid) ==
    [media_id |-> media_id, uuid_ |-> default_uuid, staged_path |-> None]

\* Path(self.temp_path) / TEMP_PATH_TEMPLATE.format(folder_tag): the
\* template is kept as a symbol, distinct tags giving distinct folders
TempFolder(folder_tag) == <<"temp_path", "TEMP_PATH_TEMPLATE", folder_tag>>

\* get_temp_path: the folder, then f"{media_id}_{file_tag}" + file_extension
get_temp_path(media_id, folder_tag, file_tag, file_extension) ==
    [folder |-> TempFolder(folder_tag),
     name |-> <<media_id, "_", file_tag, file_extension>>]

ScFile(path, owner) == [path |-> path, owner |-> owner]

\* parse_item: item = DownloadItem(media=media), then the staged path
ScParseItem ==
    /\ sc_pc = "anext"
    /\ Len(sc_items) < MaxScratchItems
    /\ \E media_id \in ScratchMediaIds :
          LET item == DownloadItem(media_id, sc_default_uuid)
          IN  sc_items' = Append(sc_items,
                  [item EXCEPT !.staged_path =
                      get_temp_path(media_id, item.uuid_, "staged", ".mp4")])
    /\ sc_pc' = "download"
    /\ UNCHANGED <<sc_default_uuid, sc_skip_cleanup, sc_files, sc_removed>>
    /\ UNCHANGED notScratch

\* download(item), try block: the item's staged file is written, replacing
\* whatever is at that path
ScDownload ==
    /\ sc_pc = "download"
    /\ LET k == Len(sc_items)
           path == sc_items[k].staged_path
       IN  sc_files' = {f \in sc_files : f.path # path} \cup {ScFile(path, k)}
    /\ sc_pc' = "cleanup"
    /\ UNCHANGED <<sc_default_uuid, sc_skip_cleanup, sc_items, sc_removed>>
    /\ UNCHANGED notScratch

\* finally: if not self.skip_cleanup: self._cleanup_temp(item.uuid_), which
\* removes the folder of that tag with everything in it
ScCleanupTemp ==
    /\ sc_pc = "cleanup"
    /\ LET k == Len(sc_items)
           temp_path == TempFolder(sc_items[k].uuid_)
           gone == {f \in sc_files : f.path.folder = temp_path}
       IN  IF sc_skip_cleanup
              THEN UNCHANGED <<sc_files, sc_removed>>
              ELSE /\ sc_files' = sc_files \ gone
                   /\ sc_removed' = sc_removed \cup
                          {[file |-> f, by |-> k] : f \in gone}
    /\ sc_pc' = "anext"
    /\ UNCHANGED <<sc_default_uuid, sc_skip_cleanup, sc_items>>
    /\ UNCHANGED notScratch

InitScratch ==
    /\ sc_default_uuid \in UuidValues
    /\ sc_skip_cleanup \in BOOLEAN
    /\ sc_items = <<>>
    /\ sc_files = {}
    /\ sc_removed = {}
    /\ sc_pc = "anext"

IdleScratch ==
    /\ sc_default_uuid = "u1"
    /\ sc_skip_cleanup = FALSE
    /\ sc_items = <<>>
    /\ sc_files = {}
    /\ sc_removed = {}
    /\ sc_pc = "done"

IdleLater ==
    IdleCache /\ IdleDownload /\ IdleStage /\ IdlePlaylist /\ IdleFinal /\ IdleSanitize
    /\ IdleDisc
    /\ IdleCli
    /\ IdlePaging
    /\ IdleSegments
    /\ IdleTags
    /\ IdleCover
    /\ IdleScratch

\* ------------------------------------------------------------------------
\* Specifications
\* ------------------------------------------------------------------------
Init == InitResolver /\ InitBroker /\ IdleAudio /\ IdleVideo /\ IdleLater

Next ==
    \/ GetMediaByUrl
    \/ TrackUrl
    \/ EpisodeUrl
    \/ AlbumOpen
    \/ AlbumItem
    \/ AlbumEnd
    \/ ShowOpen
    \/ ShowItem
    \/ ShowEnd
    \/ PlaylistOpen
    \/ PlaylistItem
    \/ PlaylistEnd
    \/ ArtistOpen
    \/ ArtistVideo
    \/ ArtistVideosEnd

Spec == Init /\ [][Next]_vars

IdleBroker == InitBroker

InitB == IdleResolver /\ InitBroker /\ IdleAudio /\ IdleVideo /\ IdleLater

NextB ==
    \/ KbCall
    \/ KbOpen
    \/ KbPssh
    \/ KbChallenge
    \/ KbLicense
    \/ KbParseLicense
    \/ KbGetKeys
    \/ KbClose

SpecBroker == InitB /\ [][NextB]_vars

InitA == IdleResolver /\ IdleBroker /\ InitAudio /\ IdleVideo /\ IdleLater

NextA ==
    \/ AqCheck
    \/ AqLadder
    \/ AqStreamUrl
    \/ AqPssh

SpecAudio == InitA /\ [][NextA]_vars

InitV == IdleResolver /\ IdleBroker /\ IdleAudio /\ InitVideo /\ IdleLater

NextV == VpSelect

SpecVideo == InitV /\ [][NextV]_vars

IdleEarlier == IdleResolver /\ IdleBroker /\ IdleAudio /\ IdleVideo

InitC ==
    IdleEarlier /\ InitCache /\ IdleDownload /\ IdleStage /\ IdlePlaylist /\ IdleFinal /\ IdleSanitize
    /\ IdleDisc
    /\ IdleCli
    /\ IdlePaging
    /\ IdleSegments
    /\ IdleTags
    /\ IdleCover
    /\ IdleScratch

NextC ==
    \/ CacheHit
    \/ CacheMiss
    \/ CachePage
    \/ CacheReturn

SpecCache == InitC /\ [][NextC]_vars

InitD ==
    IdleEarlier /\ IdleCache /\ InitDownload /\ IdleStage /\ IdlePlaylist /\ IdleFinal /\ IdleSanitize
    /\ IdleDisc
    /\ IdleCli
    /\ IdlePaging
    /\ IdleSegments
    /\ IdleTags
    /\ IdleCover
    /\ IdleScratch

NextD ==
    \/ DlInitialProcessing
    \/ DlDownload
    \/ DlFinally

SpecDownload == InitD /\ [][NextD]_vars

InitS ==
    IdleEarlier /\ IdleCache /\ IdleDownload /\ InitStage /\ IdlePlaylist /\ IdleFinal /\ IdleSanitize
    /\ IdleDisc
    /\ IdleCli
    /\ IdlePaging
    /\ IdleSegments
    /\ IdleTags
    /\ IdleCover
    /\ IdleScratch

NextS ==
    \/ StPlayplay
    \/ StAudioFfmpeg
    \/ StAudioMp4decrypt
    \/ StAudioMp4box
    \/ StVideoDecryptVideo
    \/ StVideoDecryptAudio
    \/ StVideoRemux

SpecStage == InitS /\ [][NextS]_vars

InitP ==
    IdleEarlier /\ IdleCache /\ IdleDownload /\ IdleStage /\ InitPlaylist /\ IdleFinal /\ IdleSanitize
    /\ IdleDisc
    /\ IdleCli
    /\ IdlePaging
    /\ IdleSegments
    /\ IdleTags
    /\ IdleCover
    /\ IdleScratch

NextP ==
    \/ UpdatePlaylistFile

SpecPlaylist == InitP /\ [][NextP]_vars

InitF ==
    IdleEarlier /\ IdleCache /\ IdleDownload /\ IdleStage /\ IdlePlaylist /\ InitFinal /\ IdleSanitize
    /\ IdleDisc
    /\ IdleCli
    /\ IdlePaging
    /\ IdleSegments
    /\ IdleTags
    /\ IdleCover
    /\ IdleScratch

NextF ==
    \/ FpReturn
    \/ FpMoveToFinalPath
    \/ FpUpdatePlaylistFile

SpecFinal == InitF /\ [][NextF]_vars

InitN ==
    IdleEarlier /\ IdleCache /\ IdleDownload /\ IdleStage /\ IdlePlaylist /\ IdleFinal /\ InitSanitize
    /\ IdleDisc
    /\ IdleCli
    /\ IdlePaging
    /\ IdleSegments
    /\ IdleTags
    /\ IdleCover
    /\ IdleScratch

NextN ==
    \/ SnInitialize
    \/ SnSanitizeString

SpecSanitize == InitN /\ [][NextN]_vars

InitI ==
    /\ IdleEarlier /\ InitDisc
    /\ IdleCache /\ IdleDownload /\ IdleStage /\ IdlePlaylist /\ IdleFinal
    /\ IdleSanitize
    /\ IdleCli
    /\ IdlePaging
    /\ IdleSegments
    /\ IdleTags
    /\ IdleCover
    /\ IdleScratch

NextI ==
    \/ DiParseDiscInfo

SpecDisc == InitI /\ [][NextI]_vars

InitM ==
    /\ IdleEarlier /\ InitCli
    /\ IdleCache /\ IdleDownload /\ IdleStage /\ IdlePlaylist /\ IdleFinal
    /\ IdleSanitize /\ IdleDisc
    /\ IdlePaging
    /\ IdleSegments
    /\ IdleTags
    /\ IdleCover
    /\ IdleScratch

NextM ==
    \/ CliAnext
    \/ CliDownloadStart
    \/ CliDownloadEnd

SpecCli == InitM /\ [][NextM]_vars

InitG ==
    /\ IdleEarlier /\ InitPaging
    /\ IdleCache /\ IdleDownload /\ IdleStage /\ IdlePlaylist /\ IdleFinal
    /\ IdleSanitize /\ IdleDisc /\ IdleCli
    /\ IdleSegments
    /\ IdleTags
    /\ IdleCover
    /\ IdleScratch

NextG ==
    \/ PgFirstPage
    \/ PgNextPage

SpecPaging == InitG /\ [][NextG]_vars

InitU ==
    /\ IdleEarlier /\ InitSegments
    /\ IdleCache /\ IdleDownload /\ IdleStage /\ IdlePlaylist /\ IdleFinal
    /\ IdleSanitize /\ IdleDisc /\ IdleCli /\ IdlePaging
    /\ IdleTags
    /\ IdleCover
    /\ IdleScratch

NextU ==
    \/ SgInitialization
    \/ SgSegment
    \/ SgReturn

SpecSegments == InitU /\ [][NextU]_vars

InitT ==
    /\ IdleEarlier /\ InitTags
    /\ IdleCache /\ IdleDownload /\ IdleStage /\ IdlePlaylist /\ IdleFinal
    /\ IdleSanitize /\ IdleDisc /\ IdleCli /\ IdlePaging /\ IdleSegments
    /\ IdleCover
    /\ IdleScratch

NextT ==
    \/ TgApplyTags

SpecTags == InitT /\ [][NextT]_vars

InitK ==
    /\ IdleEarlier /\ InitCover
    /\ IdleCache /\ IdleDownload /\ IdleStage /\ IdlePlaylist /\ IdleFinal
    /\ IdleSanitize /\ IdleDisc /\ IdleCli /\ IdlePaging /\ IdleSegments
    /\ IdleTags
    /\ IdleScratch

NextK ==
    \/ CvInitialProcessing
    \/ CvApplyTags

SpecCover == InitK /\ [][NextK]_vars

InitR ==
    /\ IdleEarlier /\ InitScratch
    /\ IdleCache /\ IdleDownload /\ IdleStage /\ IdlePlaylist /\ IdleFinal
    /\ IdleSanitize /\ IdleDisc /\ IdleCli /\ IdlePaging /\ IdleSegments
    /\ IdleTags /\ IdleCover

NextR ==
    \/ ScParseItem
    \/ ScDownload
    \/ ScCleanupTemp

SpecScratch == InitR /\ [][NextR]_vars

\* ------------------------------------------------------------------------
\* Properties of the resolver (Spec)
\* ------------------------------------------------------------------------
Range(f) == { f[i] : i \in DOMAIN f }

\* the URL is resolved through the collection loop of its kind
Enumerates(media_type) ==
    /\ url.valid
    /\ url.media_type = media_type
    /\ disallowed_media_types = {}
    /\ server.root_ok
    /\ server.album_ok

\* result r stands at the place of item i of the collection and is the
\* typed failure its item calls for
AtOwnPosition(r, i, typename) ==
    LET item == server.items[i] IN
    /\ r.id = i
    /\ item.typename # typename => r = Failure(i, "MediaNotFound")
    /\ item.typename = typename /\ ~item.playable => r = Failure(i, "MediaUnstreamable")
    /\ item.typename = typename /\ item.playable /\ item.playback = "none"
          => r.tag = "failure"

\* C1: when the resolution of an album URL (DRM enabled) or of a show URL
\* has ended, it has yielded one result per constituent item, in collection
\* order, without raising: a failing item is a typed failure value at its
\* own position.
C1_CollectionYieldsEveryItem ==
    (/\ pc = "done"
     /\ \/ Enumerates("album") /\ ~no_drm
        \/ Enumerates("show"))
    => /\ raised = None
       /\ Len(results) = Len(server.items)
       /\ \A i \in 1..Len(results) :
             AtOwnPosition(results[i], i,
                 IF url.media_type = "album" THEN "Track" ELSE "Episode")

\* C2: when the resolution of a playlist URL with N items has ended, it has
\* yielded N results in playlist order: a MediaUnstreamable failure for a
\* non-streamable item, and a MediaDescriptor only for a streamable one.
C2_PlaylistYieldsEveryItem ==
    (/\ pc = "done"
     /\ Enumerates("playlist")
     /\ ~no_drm
     /\ \A i \in 1..Len(server.items) : server.items[i].typename # "Other")
    => /\ raised = None
       /\ Len(results) = Len(server.items)
       /\ \A i \in 1..Len(results) :
             /\ results[i].id = i
             /\ ~server.items[i].playable
                   => results[i] = Tagged(Failure(i, "MediaUnstreamable"),
                                          results[i].playlist_track)
             /\ results[i].tag = "media" => server.items[i].playable

NoDrmNeverCallsBroker ==
    /\ no_drm => brokerCalls = 0 /\ ~cdmTouched
    /\ brokerCalls > 0 => cdm # None

\* the single item of a track or episode URL needs a key
NeedsKey(item, typename) ==
    /\ item.typename = typename
    /\ item.playable
    /\ item.playback # "none"
    /\ typename = "Episode" => (item.playback = "video" /\ item.pssh)

\* C10: with DRM disabled no resolution calls the key broker or touches the
\* CDM, and the item of a track or episode URL that would need a key ends
\* as a DrmDisabled failure value (unless its assembler failed earlier).
C10_NoDrmEndsAsDrmDisabled ==
    no_drm =>
        /\ brokerCalls = 0
        /\ ~cdmTouched
        /\ \A t \in {"track", "episode"} :
              (/\ pc = "done"
               /\ Enumerates(t)
               /\ NeedsKey(server.items[1], IF t = "track" THEN "Track" ELSE "Episode")
               /\ \A r \in Range(results) : r.what \notin AsmOutcomes)
              => results = <<Failure(1, "DrmDisabled")>>

\* ------------------------------------------------------------------------
\* Properties of the key broker (SpecBroker)
\* ------------------------------------------------------------------------
\* call c has returned or raised
KbFinished(c) == c < kb_call \/ (c = kb_call /\ kb_pc = "idle")

\* C9: every call of the key broker opens exactly one CDM session and has
\* closed that same session when it returns or raises; between calls no
\* session is open, and no session is handed to the CDM by two calls.
C9_SessionScopedToCall ==
    /\ kb_pc = "idle" => sessions = {}
    /\ \A c \in 1..MaxCalls :
          /\ Len(opened[c]) <= 1
          /\ KbFinished(c) => Len(opened[c]) = 1 /\ closed[c] = opened[c]
          /\ ~KbFinished(c) => closed[c] = <<>>
    /\ \A u \in used, v \in used : u[2] = v[2] => u[1] = v[1]
    /\ \A u \in used : opened[u[1]] = <<u[2]>>

\* a second call has failed at the license exchange after a first one ended
C9_Witness ==
    /\ kb_call = 2
    /\ kb_pc = "idle"
    /\ kb_out = KbOut("raise", "LicenseError")
    /\ closed[1] = <<1>>
    /\ closed[2] = <<2>>

\* ------------------------------------------------------------------------
\* Properties of the audio negotiation (SpecAudio)
\* ------------------------------------------------------------------------
\* the ladders as the specification declares them: tier within the family
Tier(q) ==
    CASE q \in {"vorbis-high"} -> 3
      [] q \in {"vorbis-medium", "aac-high"} -> 2
      [] OTHER -> 1

SameFamily(q1, q2) ==
    (q1 \in AAC_AUDIO_QUALITIES) = (q2 \in AAC_AUDIO_QUALITIES)

FormatsIn(files) == { files[i].format : i \in 1..Len(files) }

\* The file that get_stream_info has selected is listed in the metadata
\* under the format id of the tier chosen, the tier chosen is of the
\* requested family and at or below the requested tier, and no tier between
\* the two is present in the metadata.
SelectionPresentAndNotAbove ==
    aq_file_id # NoFile =>
        /\ \E i \in 1..Len(file_ids_mp4) :
              /\ file_ids_mp4[i].file_id = aq_file_id
              /\ file_ids_mp4[i].format = format_id(aq_cur)
        /\ SameFamily(aq_cur, audio_quality)
        /\ Tier(aq_cur) <= Tier(audio_quality)
        /\ \A q \in AudioQuality :
              (SameFamily(q, audio_quality) /\ Tier(aq_cur) < Tier(q)
                   /\ Tier(q) <= Tier(audio_quality))
              => format_id(q) \notin FormatsIn(file_ids_mp4)

AllTiersAbsent ==
    \A q \in AudioQuality :
        (SameFamily(q, audio_quality) /\ Tier(q) <= Tier(audio_quality))
        => format_id(q) \notin FormatsIn(file_ids_mp4)

\* C5: when the fallback loop has run with every tier of the ladder absent,
\* get_stream_info has ended with AudioQualityUnavailable, having tried only
\* tiers of the requested family.
C5_LadderEndsUnavailable ==
    (aq_pc = "done" /\ aq_tried # <<>> /\ AllTiersAbsent)
    => /\ aq_out = AqOut("raise", "AudioQualityUnavailable")
       /\ \A i \in 1..Len(aq_tried) : SameFamily(aq_tried[i], audio_quality)

\* C6: a request for an AAC tier without premium entitlement, or for a tier
\* outside the supported formats, has ended with AudioQualityUnavailable
\* without trying a tier and without a stream URL or seek table request.
C6_EntitlementFailsAtOnce ==
    (/\ aq_pc = "done"
     /\ \/ audio_quality \in AAC_AUDIO_QUALITIES /\ ~premium_session
        \/ audio_quality \notin AAC_AUDIO_QUALITIES)
    => /\ aq_out = AqOut("raise", "AudioQualityUnavailable")
       /\ aq_tried = <<>>
       /\ aq_api = {}

\* ------------------------------------------------------------------------
\* Properties of the video profile selection (SpecVideo)
\* ------------------------------------------------------------------------
SetMin(S) == CHOOSE x \in S : \A y \in S : x <= y

\* the profiles of the configured container format
Candidates ==
    FilterMime(profiles, IF video_format = "mp4" THEN "video/mp4" ELSE "video/webm")

\* C7: for a non-empty candidate set the selected profile is a candidate of
\* the greatest height at or below the ceiling, with the greatest bitrate of
\* that height; without such a height it is one of the lowest height.
C7_BestAtOrBelowCeiling ==
    (vp_pc = "done" /\ Candidates # <<>>) =>
        LET H == Heights(Candidates)
            below == { h \in H : h <= resolution }
        IN  /\ vp_out \in Range(Candidates)
            /\ IF below # {}
                  THEN /\ vp_out.video_height = SetMax(below)
                       /\ \A p \in Range(Candidates) :
                             p.video_height = vp_out.video_height
                                 => p.video_bitrate <= vp_out.video_bitrate
                  ELSE vp_out.video_height = SetMin(H)

\* the nearest lower height was chosen, and the better of its two bitrates
C7_Witness ==
    /\ vp_pc = "done"
    /\ Heights(Candidates) = {240, 720}
    /\ resolution = 480
    /\ vp_out.video_height = 240
    /\ vp_out.video_bitrate = 2
    /\ \E p \in Range(Candidates) : p.video_height = 240 /\ p.video_bitrate = 1

\* C8 as claimed: with the ceiling above every available resolution the
\* selection returns a profile of the lowest available resolution.
C8_AboveAllReturnsLowest ==
    (/\ vp_pc = "done"
     /\ Candidates # <<>>
     /\ \A h \in Heights(Candidates) : resolution > h)
    => /\ vp_out \in Range(Candidates)
       /\ vp_out.video_height = SetMin(Heights(Candidates))

\* C8 as amended: with the ceiling above every available resolution the
\* selection returns a profile of the highest available resolution, never
\* an empty result; it returns one of the lowest available resolution when
\* the ceiling is below every available resolution.
C8_AboveAllReturnsHighest ==
    (vp_pc = "done" /\ Candidates # <<>>) =>
        /\ (\A h \in Heights(Candidates) : resolution > h)
              => /\ vp_out \in Range(Candidates)
                 /\ vp_out.video_height = SetMax(Heights(Candidates))
        /\ (\A h \in Heights(Candidates) : resolution < h)
              => /\ vp_out \in Range(Candidates)
                 /\ vp_out.video_height = SetMin(Heights(Candidates))

\* two resolutions on offer, both under the ceiling: the higher is returned
C8_Witness ==
    /\ vp_pc = "done"
    /\ Heights(Candidates) = {240, 720}
    /\ resolution = 1080
    /\ vp_out.video_height = 720

\* ------------------------------------------------------------------------
\* Properties of the collection cache (SpecCache)
\* ------------------------------------------------------------------------
\* C11: within one run, however many resolutions reference the same album
\* id and whichever assembler performs them, at most one paginated fetch
\* of that album runs to completion; later resolutions get the memoized
\* pair.
C11_OneFetchPerAlbum ==
    \A id \in AlbumIds : fetched[id] <= 1

\* C12: every (header, items) pair handed to a caller, freshly computed or
\* from the cache, has an item list at least as long as the total count
\* the server declared.
C12_HandedListsComplete ==
    \A h \in handed : h.len >= h.total

\* a list that took more than one page was handed out on first computation
\* and again from the cache
C12_Witness ==
    /\ \E h \in handed : ~h.hit /\ h.total > PageSize
    /\ \E h \in handed : h.hit /\ h.total > PageSize

\* ------------------------------------------------------------------------
\* Properties of SpotifyDownloader.download (SpecDownload)
\* ------------------------------------------------------------------------
\* effects that fetch a stream or run an external tool
StreamOrToolEffects == {"download_stream", "run_async_command"}

NothingFetchedOrRun == dl_effects \cap StreamOrToolEffects = {}

InitialProcessingFailed == dl_exc.name = "HTTPStatusError"

\* C13: when download has returned or raised, the scratch directory does not
\* exist, unless cleanup is suppressed, and then download has removed
\* nothing from it.
C13_ScratchGoneUnlessSuppressed ==
    dl_pc = "done" =>
        IF dl_cfg.skip_cleanup
            THEN dl_scratch = dl_scratch0 /\ "rmtree" \notin dl_effects
            ELSE dl_scratch = "absent"

\* a call that raised has removed the scratch directory it found
C13_Witness ==
    /\ dl_pc = "done"
    /\ dl_exc # NoExc
    /\ ~dl_cfg.skip_cleanup
    /\ dl_scratch0 = "files"
    /\ dl_scratch = "absent"

\* the tools the item's path needs: the download tool, the decrypt tool of
\* its container format, the remux tool
RequiredTools(c, item) ==
    IF item.media_type \in AudioMediaTypes
        THEN (IF c.download_mode = "aria2c" THEN {"aria2c"} ELSE {})
             \cup (IF c.download_mode = "curl" THEN {"cURL"} ELSE {})
             \cup (IF c.audio_remux_mode = "ffmpeg" THEN {"ffmpeg"} ELSE {})
             \cup (IF c.audio_remux_mode = "mp4box" THEN {"MP4Box", "mp4decrypt"} ELSE {})
             \cup (IF c.audio_remux_mode = "mp4decrypt" THEN {"mp4decrypt"} ELSE {})
        ELSE (IF c.video_remux_mode = "ffmpeg" THEN {"ffmpeg"} ELSE {"MP4Box"})
             \cup (IF ~item.decryption_key THEN {}
                   ELSE IF item.file_format = "webm" THEN {"Shaka Packager"}
                   ELSE {"mp4decrypt"})

MissingTools == RequiredTools(dl_cfg, dl_item) \ dl_cfg.tools

\* the call got as far as the dependency checks
ReachedDependencyChecks ==
    /\ dl_pc = "done"
    /\ ~InitialProcessingFailed
    /\ ~dl_cfg.synced_lyrics_only
    /\ ~(dl_final0 # "none" /\ ~dl_cfg.overwrite)

\* C14: no stream is fetched and no tool is run unless every tool of the
\* item's path is present, and a call that reaches the dependency checks
\* with a required tool missing ends with DependencyNotFound for a missing
\* tool.
C14_MissingToolEndsAsDependencyNotFound ==
    /\ ~NothingFetchedOrRun => MissingTools = {}
    /\ (ReachedDependencyChecks /\ MissingTools # {})
          => /\ dl_exc.name = "VotifyDependencyNotFound"
             /\ dl_exc.arg \in MissingTools
             /\ NothingFetchedOrRun

Max(a, b) == IF a > b THEN a ELSE b

PrevLines == readlines(pl_prev)
NowLines == readlines(pl_file)
WrittenLine == <<final_path_relative(pl_parent, pl_call.final_path), NL>>
UpdatedAtPosition == pl_exc = None /\ pl_call.playlist_track >= 1

\* C18: after update_playlist_file for a position p >= 1 the file has
\* max(previous length, p) lines, line p is the written path, every other
\* line that existed is unchanged and every other new line is blank; so a
\* second write of p changes that line only and keeps the length.
C18_RewritesOnlyLineP ==
    UpdatedAtPosition =>
        LET p == pl_call.playlist_track IN
        /\ Len(NowLines) = Max(Len(PrevLines), p)
        /\ NowLines[p] = WrittenLine
        /\ \A i \in 1..Len(NowLines) :
              i # p => NowLines[i] = (IF i <= Len(PrevLines) THEN PrevLines[i]
                                                            ELSE <<NL>>)

\* position 1 is written while a path is at position 3 and line 2 is blank
\* padding, and position 3 keeps its path
C18_WitnessPadding ==
    /\ UpdatedAtPosition
    /\ pl_call.playlist_track = 1
    /\ Len(PrevLines) = 3
    /\ PrevLines[1] = <<NL>>
    /\ NowLines[2] = <<NL>>
    /\ NowLines[3] # <<NL>>

\* a position that held another path is written a second time
C18_Witness ==
    /\ UpdatedAtPosition
    /\ pl_call.playlist_track <= Len(PrevLines)
    /\ PrevLines[pl_call.playlist_track] # <<NL>>
    /\ PrevLines[pl_call.playlist_track] # WrittenLine
    /\ Len(PrevLines) > 1

\* ------------------------------------------------------------------------
\* Properties of final processing (SpecFinal)
\* ------------------------------------------------------------------------
PlaylistItemFinalized ==
    /\ fp_pc = "done"
    /\ ~fp_cfg.skip_processing
    /\ fp_cfg.save_playlist_file
    /\ fp_item.playlist_file_path
    /\ fp_item.track >= 1
    /\ fp_media = "final"

\* C19: once an item of a playlist has been finalized with playlist-file
\* output enabled, no error was raised and the line of the playlist file at
\* the item's position holds the relative path of the finished file.
C19_PlaylistLineHoldsPath ==
    PlaylistItemFinalized =>
        /\ fp_exc = None
        /\ Len(readlines(fp_file)) >= fp_item.track
        /\ readlines(fp_file)[fp_item.track] = <<<<"..", "A", "t.m4a">>, NL>>

\* ------------------------------------------------------------------------
\* Properties of path sanitization (SpecSanitize)
\* ------------------------------------------------------------------------
TruncatedFileSegment ==
    sn_pc = "done" /\ sn_truncate # NoTruncate /\ sn_ext # NoExt

\* C20: with truncation to N in effect, the sanitized name of a file
\* segment with extension E has at most N characters and ends with E.
C20_AtMostNAndEndsWithExtension ==
    TruncatedFileSegment =>
        /\ Len(sn_result) <= sn_truncate
        /\ endswith(sn_result, sn_ext)

\* ------------------------------------------------------------------------
\* Properties of the disc computation (SpecDisc)
\* ------------------------------------------------------------------------
DiscComputed == di_pc = "done" /\ di_position >= 1

Decreases(track_numbers, position) ==
    {j \in 2..position : track_numbers[j] < track_numbers[j - 1]}

\* C21: for a track of the sibling list, track_total is the largest track
\* number of the list and disc is 1 plus the number of positions up to the
\* track's own whose track number is lower than the one before it.
C21_DiscCountsDecreases ==
    DiscComputed =>
        /\ di_out.exc = None
        /\ \A i \in 1..Len(di_tracks) : di_tracks[i] <= di_out.track_total
        /\ \E i \in 1..Len(di_tracks) : di_tracks[i] = di_out.track_total
        /\ di_out.disc = 1 + Cardinality(Decreases(di_tracks, di_position))

\* the spec's example: [1,2,3,1,2], 4th sibling, track_total 3 and disc 2
C21_Witness ==
    /\ DiscComputed
    /\ di_tracks = <<1, 2, 3, 1, 2>>
    /\ di_position = 4
    /\ di_out.track_total = 3
    /\ di_out.disc = 2

\* C40: for every sibling list and every track of it, the disc computed
\* for the track lies between 1 and the disc_total computed for the list.
C40_DiscWithinDiscTotal ==
    DiscComputed =>
        /\ 1 <= di_out.disc
        /\ di_out.disc <= di_out.disc_total

\* what does hold: the disc is at least 1 and at most the track's position
DiscWithinPosition ==
    DiscComputed =>
        /\ 1 <= di_out.disc
        /\ di_out.disc <= di_position

\* ------------------------------------------------------------------------
\* Completeness of yielded descriptors (Spec)
\* ------------------------------------------------------------------------
YieldedMedia == {i \in 1..Len(results) : results[i].tag = "media"}

KeyedKinds == {"song", "music_video", "podcast"}

\* C22: every SpotifyMedia the resolver yields has its stream info, and
\* its decryption key whenever the item's stream declares a Widevine header
\* or its kind is one that needs a key; an object whose assembly raised is
\* not among the results.
C22_YieldedMediaComplete ==
    \A i \in YieldedMedia :
        LET item == server.items[results[i].id] IN
        /\ results[i].stream_info # None
        /\ (item.pssh \/ results[i].what \in KeyedKinds) => results[i].key # None

\* a video with a Widevine header was yielded with its key, after an item
\* whose assembly failed was yielded as a failure value
C22_Witness ==
    /\ \E i \in YieldedMedia :
          /\ server.items[results[i].id].pssh
          /\ results[i].key = "widevine"
    /\ \E i \in 1..Len(results) :
          /\ results[i].tag = "failure"
          /\ results[i].what \in {"RequestError", "LicenseError", "PsshError"}

\* ------------------------------------------------------------------------
\* Properties of the caller's loop (SpecCli)
\* ------------------------------------------------------------------------
CliFinished == cl_pc = "finished"

ItemsOfUrl(u) == 1..Len(cl_urls[u].items)

\* the results of the resolver for a URL: one per item, or the single
\* failure of an album without a CDM
ResultsOfUrl(u) ==
    IF cl_no_drm /\ cl_urls[u].media_type = "album" THEN {1} ELSE ItemsOfUrl(u)

\* the resolver's i-th result for the URL is a failure value
YieldsFailure(u, i) ==
    /\ cl_urls[u].valid
    /\ i \in ResultsOfUrl(u)
    /\ \/ cl_no_drm
       \/ cl_urls[u].items[i] # "media"

\* the resolver's i-th result for the URL is a media object
YieldsMedia(u, i) ==
    /\ cl_urls[u].valid
    /\ i \in ResultsOfUrl(u)
    /\ ~YieldsFailure(u, i)

\* the items that get_download_item hands to the loop: the video episodes
\* before the first result of the URL that is a failure value
Handed2Loop(u, i) ==
    /\ YieldsMedia(u, i)
    /\ cl_urls[u].media_type = "show"
    /\ \A j \in 1..i : ~YieldsFailure(u, j)

TimesDownloaded(u, i) ==
    Cardinality({k \in 1..Len(cl_downloads) : cl_downloads[k] = CliItem(u, i)})

EndsAsMediaFailure(u, i) == YieldsFailure(u, i)

\* C24: an item whose resolution ends as one of the four media failures is
\* reported as a skip, is not counted as an error, and the item after it is
\* processed.
C24_MediaFailureIsSkipped ==
    CliFinished =>
        \A u \in 1..Len(cl_urls) : \A i \in ResultsOfUrl(u) :
            EndsAsMediaFailure(u, i) =>
                /\ CliItem(u, i) \in cl_skips
                /\ CliItem(u, i) \notin cl_errors
                /\ (i + 1) \in ResultsOfUrl(u) => CliItem(u, i + 1) \in cl_stepped

\* the resolver's i-th result for the URL, and the failure it stands for
ResolverResult(u, i) == get_media_by_url(cl_no_drm, cl_urls[u], i - 1)

FailureOf(u, i) ==
    IF ResolverResult(u, i).ret = "return" THEN ResolverResult(u, i).val.what
                                           ELSE ResolverResult(u, i).exc

\* C37: get_download_item maps the resolver's results one to one: at the
\* end of the run every media object the resolver yielded, of whichever
\* kind, was given to the loop as one item and downloaded once, and every
\* failure value was given to the loop as that failure, the results after
\* it included.
C37_ResultsOneToOne ==
    CliFinished =>
        \A u \in 1..Len(cl_urls) : \A i \in ResultsOfUrl(u) :
            /\ YieldsMedia(u, i) =>
                    /\ Got(CliItem(u, i), "item") \in cl_got
                    /\ TimesDownloaded(u, i) = 1
            /\ YieldsFailure(u, i) =>
                    Got(CliItem(u, i), FailureOf(u, i)) \in cl_got

\* what does hold: the video episodes of a show that come before its first
\* failure value are each given to the loop as one item
EpisodesBeforeFailureOneToOne ==
    CliFinished =>
        \A u \in 1..Len(cl_urls) : \A i \in ResultsOfUrl(u) :
            Handed2Loop(u, i) => Got(CliItem(u, i), "item") \in cl_got

UrlRejected == ~url.valid \/ url.media_type \in disallowed_media_types

\* C25: for a URL that matches no pattern the resolution ends with
\* UrlParseError and no result; for a disallowed media type it ends with the
\* single result UnsupportedMediaType. In both cases no fetching step is ever
\* taken, no item is resolved and the key broker is not called.
C25_RejectedUrlFetchesNothing ==
    UrlRejected =>
        /\ pc \in {"start", "done"}
        /\ resolved = <<>>
        /\ brokerCalls = 0
        /\ pc = "start" => results = <<>> /\ raised = None
        /\ pc = "done" =>
              IF ~url.valid
                 THEN results = <<>> /\ raised = "UrlParse"
                 ELSE /\ results = <<Failure(0, "UnsupportedMediaType")>>
                      /\ raised = None

\* the resolution of a URL of a disallowed media type has ended
C25_Witness ==
    /\ pc = "done"
    /\ url.valid
    /\ url.media_type \in disallowed_media_types
    /\ Len(results) = 1

\* the resolution of a URL that matches no pattern has ended
C25_WitnessNoMatch ==
    /\ pc = "done"
    /\ ~url.valid
    /\ raised = "UrlParse"

\* C26: with DRM disabled, the resolution of an album URL ends with exactly
\* one result, the DrmDisabled failure for the album, and no item of the
\* album is resolved.
C26_AlbumWithoutDrmIsOneFailure ==
    (pc = "done" /\ url.valid /\ url.media_type = "album" /\ no_drm
        /\ disallowed_media_types = {}) =>
        /\ results = <<Failure(0, "DrmDisabled")>>
        /\ raised = None
        /\ resolved = <<>>

\* ------------------------------------------------------------------------
\* Properties of the order of the stages (SpecDownload)
\* ------------------------------------------------------------------------
\* the call passed the initial processing and every pre-flight check
PassedPreflight ==
    /\ ReachedDependencyChecks
    /\ dl_exc.name # "VotifyDependencyNotFound"

\* C27: an item that passed the pre-flight goes through download,
\* decrypt/remux and tagging before its file is moved: at the end of the
\* call its stream has been fetched, and a file is at the final path only
\* if the call did not fail.
C27_StagesInOrder ==
    /\ PassedPreflight => "download_stream" \in dl_effects
    /\ (dl_pc = "done" /\ dl_exc # NoExc) => dl_final = dl_final0

\* ------------------------------------------------------------------------
\* Properties of the pagination loops (SpecPaging)
\* ------------------------------------------------------------------------
\* the loop has been left
PgStopped == pg_pc = "loop" /\ ~more_pages(pg_kind, pg_lens, pg_totals)

PgRemaining(lens) ==
    Max(pg_totals[1] - lens[1], 0) + Max(pg_totals[2] - lens[2], 0)

\* every request was made while a list was incomplete, and the loop is left
\* with every list at its declared total
StopsAtTotal ==
    /\ \A k \in 1..Len(pg_requests) :
          more_pages(pg_kind, pg_requests[k].lens, pg_totals)
    /\ PgStopped => \A i \in Lists(pg_kind) : pg_lens[i] = pg_totals[i]

\* as long as no response was empty for an incomplete list, every request
\* found fewer items missing than the one before it
Terminates ==
    ~pg_empty =>
        /\ Len(pg_requests) < MaxPages \/ PgStopped
        /\ \A k \in 1..Len(pg_requests) :
              /\ PgRemaining(pg_requests[k].lens) <= PgRemaining(<<0, 0>>) - k
              /\ k > 1 => PgRemaining(pg_requests[k].lens)
                             < PgRemaining(pg_requests[k - 1].lens)

OffsetIsCount(k) ==
    \A i \in incomplete(pg_kind, pg_requests[k].lens, pg_totals) :
        pg_requests[k].offset = pg_requests[k].lens[i]

OffsetsIncrease ==
    ~pg_empty =>
        \A k \in 2..Len(pg_requests) :
            pg_requests[k - 1].offset < pg_requests[k].offset

PagesAsClaimed ==
    /\ \A k \in 1..Len(pg_requests) : OffsetIsCount(k)
    /\ OffsetsIncrease
    /\ StopsAtTotal
    /\ Terminates

\* the enumerations of one list (album, show, playlist, artist releases)
SingleListPagesAsClaimed == pg_kind # "artist_videos" => PagesAsClaimed

\* C30: in every enumeration each further page is requested at the offset
\* equal to the number of items collected so far, the offsets strictly
\* increase, the loop stops exactly at the declared total, and it
\* terminates when no page is empty.
C30_OffsetIsCollectedCount == PagesAsClaimed

\* ------------------------------------------------------------------------
\* Properties of a video item's staging (SpecStage, SpecDownload)
\* ------------------------------------------------------------------------
RemuxTool == IF st_call.remux_mode = "ffmpeg" THEN "ffmpeg" ELSE "MP4Box"

Ran(tool, inputs, output) ==
    [tool |-> tool, code |-> 0, inputs |-> inputs, output |-> output]

VideoRemux == Ran(RemuxTool, {"decrypted_video", "decrypted_audio"}, "staged")

\* SpotifyVideoDownloader.stage, called on its own and ending without an
\* exception: with a key each track was decrypted by the tool of its
\* container and then one remux read the two decrypted files; without a key
\* the one remux is the only tool run
VideoStageAsClaimed ==
    (st_call.kind = "video" /\ st_pc = "done" /\ st_exc = NoCmdExc) =>
        IF st_call.decryption_key
           THEN st_ran = << Ran(decrypt_tool(st_call.video_ext),
                                {"encrypted_video"}, "decrypted_video"),
                            Ran(decrypt_tool(st_call.audio_ext),
                                {"encrypted_audio"}, "decrypted_audio"),
                            VideoRemux >>
           ELSE st_ran = << VideoRemux >>

VideoPassedPreflight ==
    /\ PassedPreflight
    /\ dl_item.media_type \in VideoMediaTypes

\* C31: a video item that passed the pre-flight has its two tracks
\* downloaded, then decrypted each on its own when it has a key, then merged
\* by one remux that reads files written before it: at the end of the call
\* the streams have been fetched and a tool has been run.
C31_VideoTracksDownloadedThenMerged ==
    VideoPassedPreflight =>
        /\ "download_stream" \in dl_effects
        /\ "run_async_command" \in dl_effects
        /\ dl_exc.name # "AttributeError"

\* ------------------------------------------------------------------------
\* Properties of the audio remux backends (SpecStage)
\* ------------------------------------------------------------------------
\* the files that the tools which exited with code 0 were told to write
FilesWritten == {st_ran[k].output : k \in {j \in 1..Len(st_ran) : st_ran[j].code = 0}}

AudioRemuxEndedWell ==
    /\ st_call.kind = "audio"
    /\ st_call.staged_ext # ".ogg"
    /\ st_pc = "done"
    /\ st_exc = NoCmdExc

\* C38: for each audio remux backend, when every tool it ran exited with
\* code 0, a file is at the staged path.
C38_StagedFileWritten ==
    AudioRemuxEndedWell => "staged" \in FilesWritten

\* the backends other than mp4decrypt
StagedFileWrittenUnlessMp4decrypt ==
    (AudioRemuxEndedWell /\ st_call.remux_mode # "mp4decrypt")
        => "staged" \in FilesWritten

\* ------------------------------------------------------------------------
\* Properties of the key broker's use (Spec)
\* ------------------------------------------------------------------------
\* PSSH(None) is what the broker fails with when it is called for a stream
\* that declares no DRM system header
BrokerCalledWithoutHeader ==
    \/ raised = "PsshError"
    \/ \E i \in 1..Len(results) : results[i].what = "PsshError"
    \/ \E i \in 1..Len(resolved) : resolved[i].what = "PsshError"

\* C32: the broker is never called for an item whose chosen stream declares
\* no DRM system header.
C32_BrokerOnlyForDrmStreams == ~BrokerCalledWithoutHeader

\* ------------------------------------------------------------------------
\* Properties of the failure the assembler hands on (SpecAudio)
\* ------------------------------------------------------------------------
\* proccess_media of song.py and episode.py around get_stream_info:
\*   except VotifyMediaAudioQualityNotAvailableException as e:
\*       e.media_metadata = track_data; raise
\* any other exception passes through as it is
retagged(out) ==
    [exc |-> out.exc,
     media_metadata |-> out.exc = "AudioQualityUnavailable"]

QualityUnavailable ==
    /\ aq_pc = "done"
    /\ \/ ~mp4(audio_quality)
       \/ premium(audio_quality) /\ ~premium_session
       \/ aq_tried # <<>> /\ AllTiersAbsent

\* C33: when the negotiation fails because the quality is unavailable, at
\* the entitlement check or at the end of the ladder, the failure that
\* leaves the assembler is AudioQualityUnavailable with the item's metadata.
C33_UnavailableCarriesMetadata ==
    QualityUnavailable =>
        retagged(aq_out) = [exc |-> "AudioQualityUnavailable", media_metadata |-> TRUE]

\* ------------------------------------------------------------------------
\* Properties of the segment URLs (SpecSegments)
\* ------------------------------------------------------------------------
FloorDiv(a, b) == CHOOSE q \in 0..a : q * b <= a /\ a < (q + 1) * b

CeilDiv(a, b) == CHOOSE q \in 0..a : (q - 1) * b < a /\ a <= q * b

\* floor(end_time_millis / 1000) + 5
PastEnd == FloorDiv(sg_args.end_time_millis, 1000) + 5

\* C34: the returned list is the initialization URL followed by one segment
\* URL per timestamp 0, L, 2L, ... below floor(end_time_millis/1000)+5, in
\* increasing order, every URL with the chosen profile id and file type:
\* 1 + ceil((floor(end_time_millis/1000)+5)/L) entries.
C34_SegmentUrls ==
    sg_pc = "done" =>
        /\ Len(sg_urls) = 1 + CeilDiv(PastEnd, sg_args.segment_length)
        /\ sg_urls[1] = InitializationUrl(sg_args.profile_id, sg_args.file_type)
        /\ \A k \in 2..Len(sg_urls) :
              /\ sg_urls[k] = SegmentUrl(sg_args.profile_id, sg_args.file_type,
                                         (k - 2) * sg_args.segment_length)
              /\ sg_urls[k].segment_timestamp < PastEnd

\* a list whose last timestamp is the last one below the stop value, with a
\* segment length that does not divide it
C34_Witness ==
    /\ sg_pc = "done"
    /\ sg_args.segment_length = 4
    /\ sg_args.end_time_millis = 1999
    /\ Len(sg_urls) = 3
    /\ sg_urls[3].segment_timestamp = 4

\* ------------------------------------------------------------------------
\* Properties of the tags written (SpecTags)
\* ------------------------------------------------------------------------
\* the fields of MediaTags a key of the container is made from
FieldsOfKey(k) ==
    CASE k \in {"TITLE", "nam"} -> {"title"}
      [] k = "DISCNUMBER" -> {"disc"}
      [] k = "DISCTOTAL" -> {"disc_total"}
      [] k = "disk" -> {"disc", "disc_total"}
      [] k = "ISRC" -> {"isrc"}
      [] OTHER -> {"label"}

Writable(f) == tg_tags[f] # None /\ f \notin tg_exclude

TagsSaved == tg_pc = "done" /\ tg_file.exc = None

\* C35: every key of the tag structure saved to the file comes from a field
\* that is not null and not excluded; no cover is saved when "cover" is
\* excluded; with "all" excluded no tag and no cover is saved.
C35_NoNullOrExcludedTag ==
    TagsSaved =>
        /\ \A k \in DOMAIN tg_file.tags : \E f \in FieldsOfKey(k) : Writable(f)
        /\ "cover" \in tg_exclude => ~tg_file.cover
        /\ "all" \in tg_exclude => tg_file.tags = <<>> /\ ~tg_file.cover

\* the same for the MP4 container alone
Mp4NoNullOrExcludedTag == tg_ext # ".ogg" => C35_NoNullOrExcludedTag

\* ------------------------------------------------------------------------
\* Properties of the cover memo (SpecCover)
\* ------------------------------------------------------------------------
\* the GET requests made for a URL, by whichever object
RequestsOfUrl(u) ==
    cv_requests[<<"base", u>>] + cv_requests[<<"audio", u>>]
        + cv_requests[<<"video", u>>]

\* C36: within one run the cover image of a given URL is requested over
\* HTTP at most once, whichever step and whichever item asks for it.
C36_CoverFetchedOnce ==
    \A u \in CoverUrls : RequestsOfUrl(u) <= 1

\* what the memo does give: one object requests a URL that answers 200 or
\* 404 at most once
CoverFetchedOncePerObject ==
    \A o \in CoverObjects, u \in CoverUrls :
        cv_status[u] \in {200, 404} => cv_requests[<<o, u>>] <= 1

\* ------------------------------------------------------------------------
\* Properties of the scratch namespaces (SpecScratch)
\* ------------------------------------------------------------------------
\* C39: any two items created in one run have different scratch-namespace
\* ids and different scratch paths, and no cleanup has removed a file that
\* belongs to another item than the one cleaned up.
C39_ScratchNamespacesDistinct ==
    /\ \A i, j \in 1..Len(sc_items) :
          i # j => /\ sc_items[i].uuid_ # sc_items[j].uuid_
                   /\ sc_items[i].staged_path # sc_items[j].staged_path
    /\ \A r \in sc_removed : r.file.owner = r.by

\* what does hold: one folder per run, and paths that differ whenever the
\* media ids differ
OneNamespacePerRun ==
    \A i, j \in 1..Len(sc_items) :
        /\ sc_items[i].uuid_ = sc_items[j].uuid_
        /\ sc_items[i].media_id # sc_items[j].media_id
              => sc_items[i].staged_path # sc_items[j].staged_path

\* the items being handled one after the other, a cleanup finds only the
\* files of its own item
CleanupRemovesOwnFiles ==
    \A r \in sc_removed : r.file.owner = r.by

====
